---- MODULE Spec2Model ----
(***************************************************************************)
(* Model of the nostr integration's relay engine:                          *)
(*   - shared/factory.py  SharedFactory / SharedFactoryItem (the pool)     *)
(*   - nostr/relay.py     Relay (_loop, subscribe, _verify_event)          *)
(*   - nostr/filter.py    Filter.matches (what a relay answers to a REQ)   *)
(*   - nostr/event.py     Event.id / Event.verify                          *)
(* Every coroutine is cut at its await points: one action is the code that *)
(* runs between two suspensions on the single-threaded event loop.         *)
(***************************************************************************)
EXTENDS Integers, Sequences, FiniteSets, TLC

\* ------------------------------------------------------------------ bounds
NCallers == 2        \* callers of SharedFactoryItem.__aenter__/__aexit__
MaxTasks == 2        \* creation tasks ever started by the pool
MaxRef   == 3        \* cap on a key's reference count

NSenders == 3        \* tasks of RelayClient._send_str alive at a time
MaxStarts == 4       \* tasks of RelayClient._send_str ever started

MaxEvents == 2       \* events signed by one call of the post_event service

MaxMsgs == 3         \* messages yielded by the socket of the integration's Relay

MaxTags == 2         \* tags appended to an Event

MaxUpdates == 3      \* calls of update_verified on a registry

MaxSets == 2         \* calls of NostrTextEntity.async_set_value

MaxSteps == 3        \* what happens to a Relay from outside: frames written by
                     \* the relay, losses of the connection

Keys    == {"wss://a", "wss://b"}
Callers == 1..NCallers
Senders == 1..NSenders

\* Python's None where it is compared with a record
NoneV == [none |-> TRUE]

\* --------------------------------------------------------------- variables
VARIABLES
    _ref,     \* SharedFactory._ref : dict key -> int
    _val,     \* SharedFactory._val : dict key -> creation task (index in tasks)
    tasks,    \* the creation tasks (coroutine _create), in creation order
    dtasks,   \* the fire-and-forget tasks (coroutine _destroy), in creation order
    pc,       \* per caller: "idle", "awaiting" (inside __aenter__), "holding"
    ckey,     \* per caller: the key of its SharedFactoryItem (SharedFactory.get)
    cwait     \* per caller: the task it awaits or whose resource it holds (0: none)

poolVars == <<_ref, _val, tasks, dtasks, pc, ckey, cwait>>

VARIABLES
    loopPc,     \* Relay._loop: the await it is suspended at, or how it ended
    aexitPc,    \* Relay.__aexit__: "none", "awaiting" (task cancelled), "returned"
    wsOpen,     \* not self._ws.closed
    conn,       \* which socket self._ws is: the number of reconnects so far
    wire,       \* frames written by the relay, not yet returned by receive()
    steps,      \* frames and connection losses so far
    ready,      \* the event loop's FIFO of callbacks (call_soon, create_task)
    _subid,     \* Relay._subid
    subs,       \* per subscription: is it subscribed, and its fjson dict
    delivered,  \* per subscription: what its observer received, in order
    lastReq,    \* per subscription: the filter of the last REQ written
    rxErr,      \* Relay.received has terminated with on_error
    rxOut,      \* the input and output of Relay.received for the last message
    relayReq    \* relay side: per subscription id, the REQ it is answering

relayVars == <<loopPc, aexitPc, wsOpen, conn, wire, steps, ready, _subid,
               subs, delivered, lastReq, rxErr, rxOut, relayReq>>

VARIABLES
    _relays,    \* RelayClient._relays : dict url -> task of _connect (index in ctasks)
    ctasks,     \* the tasks of _connect, in creation order, each with its Relay
    senders,    \* the tasks of RelayClient._send_str
    starts,     \* the tasks of _send_str started so far
    post        \* the call of RelayClient.post_event: its position and result

clientVars == <<_relays, ctasks, senders, starts, post>>

VARIABLES
    events,     \* _service_post_event: per signed event, its write_urls
    order,      \* RelaysConnector._relays: one item per url of set(urls), in its order
    down,       \* the urls whose ws_connect raises
    dropped,    \* the urls whose socket was closed under the service call
    svcPc,      \* the service call: "idle", "entering", "running", "rollback",
                \* "publishing", "exiting", "done"
    svcIdx,     \* the item the loop of __aenter__ / rollback / __aexit__ is at
    acquired,   \* RelaysConnector.__aenter__: rollbacks (and relays)
    sendq,      \* the send_str coroutines handed to gather, not yet run
    sent,       \* <<event, url>>: the event's message was written to the url's socket
    sendErr,    \* a send_str raised
    svcRes      \* how the service call ended: "none", "ok", "raised"

svcVars == <<events, order, down, dropped, svcPc, svcIdx, acquired, sendq, sent,
             sendErr, svcRes>>

VARIABLES
    regKind,    \* which registry the run is about: "contact" or "metadata"
    data,       \* ContactRegistory.data / MetadataRegistory.data : dict bytes -> value
    updated,    \* the values handed to updated.on_next so far
    applied,    \* the updates stored so far, each with the author's key
    observers,  \* the observers subscribed through subscribe(pubkey), with what
                \* each was handed by on_next
    lastCall,   \* the last call of update_verified: its event and how it ended
    calls,      \* the events update_verified was called with so far
    setCalls    \* NostrTextEntity.async_set_value: per call, its value, how it
                \* ended and the event it handed to post_event

regVars == <<regKind, data, updated, applied, observers, lastCall, calls, setCalls>>

VARIABLES
    theEvent,   \* an Event object: its fields and its signature
    idRead,     \* what the last read of theEvent.id returned
    verified    \* what the last call of theEvent.verify() returned

evVars == <<theEvent, idRead, verified>>

VARIABLES
    wsIn,       \* the messages the socket of the integration's Relay has yielded
    wsParsed,   \* the texts handed to json.loads in the pipeline of Relay.__aenter__
    wsOut,      \* the values handed to the subscribers of Relay.received
    wsErr,      \* the pipeline has ended with on_error
    itTask,     \* from_async_iterable: the task of action(): "none" before
                \* subscribe, "awaiting" anext, "returned", "cancelled"
    itDisposed, \* from_async_iterable: the flag disposed
    itEnd,      \* how the iteration of the async iterable ended, if it has
    itLog       \* what the observer of from_async_iterable was handed, and
                \* where in that order the subscription was disposed

wsVars == <<wsIn, wsParsed, wsOut, wsErr, itTask, itDisposed, itEnd, itLog>>

libVars == <<regVars, evVars, wsVars>>

VARIABLES
    completed   \* the subjects of the Relay on which on_completed was called

subjVars == <<completed>>

extVars == <<clientVars, svcVars, libVars, subjVars>>

vars == <<poolVars, relayVars, extVars>>

\* ------------------------------------------------------------ dict helpers
\* d[k] = v on a dict held as a function with a finite domain
DictSet(d, k, v) == [x \in (DOMAIN d) \cup {k} |-> IF x = k THEN v ELSE d[x]]

\* del d[k]
DictDel(d, k) == [x \in (DOMAIN d) \ {k} |-> d[x]]

EmptyDict == [x \in {} |-> 0]

\* ---------------------------------------------------------- Relay: the data

\* d.get(k, default)
DictGet(d, k, default) == IF k \in DOMAIN d THEN d[k] ELSE default

Max(a, b) == IF a >= b THEN a ELSE b

\* f"{n:x}" for the subscription ids the model reaches
HexDigits == <<"0", "1", "2", "3", "4", "5", "6", "7", "8", "9",
               "a", "b", "c", "d", "e", "f">>

Hex(n) == HexDigits[n + 1]

\* Event.serialize / compute_id: the id is the hash of this list (the hash is
\* taken to be injective, so the list stands for it)
ComputeId(public_key, created_at, kind, tags, content) ==
    <<0, public_key, created_at, kind, tags, content>>

\* Event.id
EventId(ev) == ComputeId(ev.public_key, ev.created_at, ev.kind, ev.tags, ev.content)

\* PrivateKey.sign_message_hash: a signature names the hash and the key pair
Sign(id, public_key) == [id |-> id, key |-> public_key]

\* Event.verify: no signature fails, else the Schnorr check of (id, sig, pubkey)
Verify(ev) ==
    IF ev.signature = NoneV
    THEN FALSE
    ELSE ev.signature.id = EventId(ev) /\ ev.signature.key = ev.public_key

\* the Event built from a wire object in _verify_event._map (e.get with defaults)
EventFromDict(e) ==
    [content    |-> DictGet(e, "content", ""),
     public_key |-> DictGet(e, "pubkey", ""),
     created_at |-> DictGet(e, "created_at", 0),
     kind       |-> DictGet(e, "kind", 0),
     tags       |-> DictGet(e, "tags", <<>>),
     signature  |-> DictGet(e, "sig", NoneV)]

\* wire objects a relay may hold: correctly signed, altered after signing, unsigned
GoodEvt(t) ==
    [pubkey |-> "aa", created_at |-> t, kind |-> 1, tags |-> <<>>, content |-> "hi",
     sig |-> Sign(ComputeId("aa", t, 1, <<>>, "hi"), "aa")]

ForgedEvt(t) == [GoodEvt(t) EXCEPT !.content = "evil"]

UnsignedEvt(t) ==
    [pubkey |-> "aa", created_at |-> t, kind |-> 1, tags |-> <<>>, content |-> "hi"]

\* created_at of the events a relay holds
Times == {1, 2}

WireEvents ==
    {GoodEvt(t) : t \in Times} \cup {ForgedEvt(1), UnsignedEvt(1)}

\* Filter.matches, the since and until bounds (the other constraints are absent)
FilterMatches(f, ev) ==
    /\ ~("since" \in DOMAIN f /\ ev.created_at < f.since)
    /\ ~("until" \in DOMAIN f /\ ev.created_at > f.until)

\* Filter.to_json_object of the filters subscribed with
FilterChoices == {<<>>, [since |-> 1], [until |-> 2]}

\* the listeners of the Relay; each calls subscribe once (a sensor entity does so
\* when it is added)
Listeners == {"sensor"}

\* two listeners of one Relay
ListenerPair == {"sensor", "text"}

\* websocket frames: TEXT carries a text that json.loads parses or rejects
BadJsonFrame  == [type |-> "TEXT", data |-> [ok |-> FALSE]]
NonArrayFrame == [type |-> "TEXT", data |-> [ok |-> TRUE, val |-> [t |-> "dict"]]]
BinaryFrame   == [type |-> "BINARY"]
ArrayFrame(m) == [type |-> "TEXT", data |-> [ok |-> TRUE, val |-> [t |-> "list", v |-> m]]]

\* the Relay before __aenter__ (the state the pool's own runs leave it in)
RelayIdle ==
    /\ loopPc = "none"
    /\ aexitPc = "none"
    /\ wsOpen = FALSE
    /\ conn = 0
    /\ wire = <<>>
    /\ steps = 0
    /\ ready = <<>>
    /\ _subid = 0
    /\ subs = <<>>
    /\ delivered = <<>>
    /\ lastReq = <<>>
    /\ rxErr = FALSE
    /\ rxOut = [in |-> <<>>, out |-> <<>>]
    /\ relayReq = <<>>
    /\ completed = {}

\* a RelayClient nothing was asked of; every _send_str there will be has its url
ClientIdle ==
    /\ _relays = EmptyDict
    /\ ctasks = <<>>
    /\ senders \in [Senders -> [pc : {"idle"}, url : Keys, wait : {0}, res : {"none"}]]
    /\ starts = 0
    /\ post = [pc |-> "idle", targets |-> {}, res |-> <<>>]

\* the RelayClient in the runs of the pool and of a Relay
ClientUnused ==
    /\ _relays = EmptyDict
    /\ ctasks = <<>>
    /\ senders = [s \in Senders |-> [pc |-> "idle", url |-> "wss://a", wait |-> 0,
                                     res |-> "none"]]
    /\ starts = 0
    /\ post = [pc |-> "idle", targets |-> {}, res |-> <<>>]

\* registries nothing was applied to
RegUnused ==
    /\ regKind = "contact"
    /\ data = EmptyDict
    /\ updated = <<>>
    /\ applied = <<>>
    /\ observers = EmptyDict
    /\ lastCall = [n |-> 0, event |-> NoneV, raised |-> FALSE]
    /\ calls = {}
    /\ setCalls = <<>>

\* an Event nothing is done with
EvUnused ==
    /\ theEvent = [content |-> "hi", public_key |-> "aa", created_at |-> 1, kind |-> 1,
                   tags |-> <<>>, signature |-> NoneV]
    /\ idRead = <<>>
    /\ verified = "none"

\* the integration's Relay before its socket has yielded anything
WsIdle ==
    /\ wsIn = <<>>
    /\ wsParsed = <<>>
    /\ wsOut = <<>>
    /\ wsErr = FALSE
    /\ itTask = "none"
    /\ itDisposed = FALSE
    /\ itEnd = "none"
    /\ itLog = <<>>

LibUnused == RegUnused /\ EvUnused /\ WsIdle

\* no call of the post_event service
SvcUnused ==
    /\ events = <<{"wss://a"}>>
    /\ order = <<"wss://a">>
    /\ down = {}
    /\ dropped = {}
    /\ svcPc = "idle"
    /\ svcIdx = 0
    /\ acquired = <<>>
    /\ sendq = <<>>
    /\ sent = {}
    /\ sendErr = FALSE
    /\ svcRes = "none"

\* ------------------------------------------------- SharedFactoryItem (pool)

PoolInit ==
    /\ _ref = EmptyDict
    /\ _val = EmptyDict
    /\ tasks = <<>>
    /\ dtasks = <<>>
    /\ pc = [c \in Callers |-> "idle"]
    /\ ckey \in [Callers -> Keys]
    /\ cwait = [c \in Callers |-> 0]
    /\ RelayIdle
    /\ ClientUnused
    /\ SvcUnused
    /\ LibUnused

\* __aenter__, lines 26-30: register the caller; the first one starts the creation
EnterRegisterAlwaysCreate(k) ==
    [ref   |-> DictSet(_ref, k, IF k \in DOMAIN _ref THEN _ref[k] + 1 ELSE 1),
     val   |-> DictSet(_val, k, Len(tasks) + 1),
     tasks |-> Append(tasks, [key |-> k, st |-> "scheduled"])]

EnterRegister(k) ==
    IF k \notin DOMAIN _ref
    THEN [ref   |-> DictSet(_ref, k, 1),
          val   |-> DictSet(_val, k, Len(tasks) + 1),
          tasks |-> Append(tasks, [key |-> k, st |-> "scheduled"])]
    ELSE [ref   |-> DictSet(_ref, k, _ref[k] + 1),
          val   |-> _val,
          tasks |-> tasks]

\* __aenter__, lines 33-38: the except handler run by a caller whose await raised
EnterFailed(ref, val, k) ==
    IF ref[k] - 1 = 0
    THEN [ref |-> DictDel(ref, k), val |-> DictDel(val, k)]
    ELSE [ref |-> ref, val |-> val]

\* __aenter__ up to its first suspension.  Awaiting a task that is already done
\* does not suspend, so the outcome is taken in the same step.
SFI_aenter(c, k) ==
    /\ pc[c] = "idle"
    /\ k = ckey[c]
    /\ k \in DOMAIN _ref => _ref[k] < MaxRef
    /\ k \notin DOMAIN _ref => Len(tasks) < MaxTasks
    /\ LET r == EnterRegister(k)
           t == r.val[k]
       IN  /\ tasks' = r.tasks
           /\ CASE r.tasks[t].st = "ok" ->
                     /\ _ref' = r.ref
                     /\ _val' = r.val
                     /\ pc' = [pc EXCEPT ![c] = "holding"]
                     /\ cwait' = [cwait EXCEPT ![c] = t]
                [] r.tasks[t].st = "failed" ->
                     /\ _ref' = EnterFailed(r.ref, r.val, k).ref
                     /\ _val' = EnterFailed(r.ref, r.val, k).val
                     /\ pc' = [pc EXCEPT ![c] = "idle"]
                     /\ cwait' = [cwait EXCEPT ![c] = 0]
                [] OTHER ->
                     /\ _ref' = r.ref
                     /\ _val' = r.val
                     /\ pc' = [pc EXCEPT ![c] = "awaiting"]
                     /\ cwait' = [cwait EXCEPT ![c] = t]
    /\ UNCHANGED <<dtasks, ckey, relayVars, extVars>>

\* __aenter__ resumed after the awaited creation task finished (lines 32-38)
SFI_aenter_resume(c) ==
    /\ pc[c] = "awaiting"
    /\ tasks[cwait[c]].st \in {"ok", "failed"}
    /\ IF tasks[cwait[c]].st = "ok"
       THEN /\ pc' = [pc EXCEPT ![c] = "holding"]
            /\ UNCHANGED <<_ref, _val, cwait>>
       ELSE /\ _ref' = EnterFailed(_ref, _val, ckey[c]).ref
            /\ _val' = EnterFailed(_ref, _val, ckey[c]).val
            /\ pc' = [pc EXCEPT ![c] = "idle"]
            /\ cwait' = [cwait EXCEPT ![c] = 0]
    /\ UNCHANGED <<tasks, dtasks, ckey, relayVars, extVars>>

\* __aexit__, lines 41-46: what a release does to the pool
ExitReleaseOffByOne(k) ==
    IF _ref[k] - 1 <= 1
    THEN [ref |-> DictDel(_ref, k), val |-> DictDel(_val, k),
          dtasks |-> Append(dtasks, [t |-> _val[k], st |-> "scheduled"])]
    ELSE [ref |-> DictSet(_ref, k, _ref[k] - 1), val |-> _val, dtasks |-> dtasks]

ExitReleaseKeepEntry(k) ==
    IF _ref[k] - 1 = 0
    THEN [ref |-> DictSet(_ref, k, 0), val |-> _val,
          dtasks |-> Append(dtasks, [t |-> _val[k], st |-> "scheduled"])]
    ELSE [ref |-> DictSet(_ref, k, _ref[k] - 1), val |-> _val, dtasks |-> dtasks]

ExitReleaseNoDestroy(k) ==
    IF _ref[k] - 1 = 0
    THEN [ref |-> DictDel(_ref, k), val |-> DictDel(_val, k), dtasks |-> dtasks]
    ELSE [ref |-> DictSet(_ref, k, _ref[k] - 1), val |-> _val, dtasks |-> dtasks]

ExitRelease(k) ==
    IF _ref[k] - 1 = 0
    THEN [ref |-> DictDel(_ref, k), val |-> DictDel(_val, k),
          dtasks |-> Append(dtasks, [t |-> _val[k], st |-> "scheduled"])]
    ELSE [ref |-> DictSet(_ref, k, _ref[k] - 1), val |-> _val, dtasks |-> dtasks]

\* __aexit__: no await inside, the caller is back in one step
SFI_aexit(c) ==
    /\ pc[c] = "holding"
    /\ Len(dtasks) < MaxTasks + 1
    /\ LET r == ExitRelease(ckey[c])
       IN  /\ _ref' = r.ref
           /\ _val' = r.val
           /\ dtasks' = r.dtasks
    /\ pc' = [pc EXCEPT ![c] = "idle"]
    /\ cwait' = [cwait EXCEPT ![c] = 0]
    /\ UNCHANGED <<tasks, ckey, relayVars, extVars>>

\* _create, line 49: the task starts and calls the factory's create function
SFI_create_start(t) ==
    /\ t \in DOMAIN tasks
    /\ tasks[t].st = "scheduled"
    /\ \E st \in {"entering", "failed"} : tasks' = [tasks EXCEPT ![t].st = st]
    /\ UNCHANGED <<_ref, _val, dtasks, pc, ckey, cwait, relayVars, extVars>>

\* _create, line 50: the resource's own __aenter__ returns or raises
SFI_create_finish(t) ==
    /\ t \in DOMAIN tasks
    /\ tasks[t].st = "entering"
    /\ \E st \in {"ok", "failed"} : tasks' = [tasks EXCEPT ![t].st = st]
    /\ UNCHANGED <<_ref, _val, dtasks, pc, ckey, cwait, relayVars, extVars>>

\* _destroy, lines 53-54: await the creation task, then start the resource's
\* __aexit__ (a failed creation task re-raises here and nothing is torn down)
SFI_destroy_start(i) ==
    /\ i \in DOMAIN dtasks
    /\ dtasks[i].st = "scheduled"
    /\ tasks[dtasks[i].t].st \in {"ok", "failed"}
    /\ dtasks' = [dtasks EXCEPT ![i].st =
                     IF tasks[dtasks[i].t].st = "ok" THEN "exiting" ELSE "raised"]
    /\ UNCHANGED <<_ref, _val, tasks, pc, ckey, cwait, relayVars, extVars>>

\* _destroy, line 54: the resource's __aexit__ returns
SFI_destroy_finish(i) ==
    /\ i \in DOMAIN dtasks
    /\ dtasks[i].st = "exiting"
    /\ dtasks' = [dtasks EXCEPT ![i].st = "done"]
    /\ UNCHANGED <<_ref, _val, tasks, pc, ckey, cwait, relayVars, extVars>>

PoolNext ==
    \/ \E c \in Callers, k \in Keys : SFI_aenter(c, k)
    \/ \E c \in Callers : SFI_aenter_resume(c)
    \/ \E c \in Callers : SFI_aexit(c)
    \/ \E t \in 1..MaxTasks : SFI_create_start(t)
    \/ \E t \in 1..MaxTasks : SFI_create_finish(t)
    \/ \E i \in 1..(MaxTasks + 1) : SFI_destroy_start(i)
    \/ \E i \in 1..(MaxTasks + 1) : SFI_destroy_finish(i)

PoolSpec == PoolInit /\ [][PoolNext]_vars

\* The event loop runs every task it was handed: a scheduled _destroy is started,
\* and a started resource __aexit__ returns.
PoolLiveSpec ==
    /\ PoolInit
    /\ [][PoolNext]_vars
    /\ \A i \in 1..(MaxTasks + 1) : WF_vars(SFI_destroy_start(i))

\* --------------------------------------------------------------- the Relay

\* Relay.__init__ followed by Relay.__aenter__: the first socket is open and
\* _loop has been started (it suspends at receive)
RelayInit ==
    /\ _ref = EmptyDict
    /\ _val = EmptyDict
    /\ tasks = <<>>
    /\ dtasks = <<>>
    /\ pc = [c \in Callers |-> "idle"]
    /\ ckey = [c \in Callers |-> "wss://a"]
    /\ cwait = [c \in Callers |-> 0]
    /\ loopPc = "receive"
    /\ aexitPc = "none"
    /\ wsOpen = TRUE
    /\ conn = 0
    /\ wire = <<>>
    /\ steps = 0
    /\ ready = <<>>
    /\ _subid = 0
    /\ subs = <<>>
    /\ delivered = <<>>
    /\ lastReq = <<>>
    /\ rxErr = FALSE
    /\ rxOut = [in |-> <<>>, out |-> <<>>]
    /\ relayReq = <<>>
    /\ completed = {}
    /\ ClientUnused
    /\ SvcUnused
    /\ LibUnused

\* the subscriptions that are subscribed, in subscription order
ActiveSubs == {n \in DOMAIN subs : subs[n].active}

\* req() run for every subscription ever made, cancelled or not
RECURSIVE ReqTasksAll(_)
ReqTasksAll(n) ==
    IF n >= _subid THEN <<>>
    ELSE <<[kind |-> "send_req", sub |-> n]>> \o ReqTasksAll(n + 1)

\* the callbacks req() of the active subscriptions, as reconnected.on_next runs them
RECURSIVE ReqTasks(_)
ReqTasks(n) ==
    IF n >= _subid THEN <<>>
    ELSE (IF subs[n].active THEN <<[kind |-> "send_req", sub |-> n]>> ELSE <<>>)
         \o ReqTasks(n + 1)

\* the tasks _send_close of the active subscriptions: when received ends with an
\* error every observer detaches, which runs its dispose()
RECURSIVE CloseTasks(_)
CloseTasks(n) ==
    IF n >= _subid THEN <<>>
    ELSE (IF subs[n].active THEN <<[kind |-> "send_close", sub |-> n]>> ELSE <<>>)
         \o CloseTasks(n + 1)

\* _verify_event._map: the result, or raised when the list has no event element
VerifyMapKeepEvent(x) ==
    IF x[1] = "EVENT"
    THEN IF Len(x) < 3
         THEN [raised |-> TRUE]
         ELSE [raised |-> FALSE, val |-> SubSeq(x, 1, 2) \o <<EventFromDict(x[3])>>]
    ELSE [raised |-> FALSE, val |-> x]

VerifyMap(x) ==
    IF x[1] = "EVENT"
    THEN IF Len(x) < 3
         THEN [raised |-> TRUE]
         ELSE LET event == EventFromDict(x[3])
              IN  [raised |-> FALSE,
                   val |-> SubSeq(x, 1, 2) \o <<IF Verify(event) THEN event ELSE NoneV>>]
    ELSE [raised |-> FALSE, val |-> x]

\* _verify_event: the ops.filter after the map
VerifyFilter(x) == ~(x[1] = "EVENT" /\ x[3] = NoneV)

\* Relay.subscribe.recv: the since ratchet
RecvNoMax(fjson, x) ==
    IF x[1] # "EVENT" THEN fjson
    ELSE DictSet(fjson, "since", x[3].created_at)

Recv(fjson, x) ==
    IF x[1] # "EVENT" THEN fjson
    ELSE DictSet(fjson, "since", Max(DictGet(fjson, "since", 0), x[3].created_at))

\* a pipe whose second filter (on the subscription id) is missing
SubAcceptsAnyId(n, x) == x[1] \in {"EVENT", "EOSE"}

\* the two ops.filter of a subscription's pipe
SubAccepts(n, x) ==
    /\ x[1] \in {"EVENT", "EOSE"}
    /\ x[2] = Hex(n)

\* a message reaches the observer of every pipe whose filters accept it, whether
\* the pipe is still subscribed or not
DeliversAfterDispose(n, x) == SubAccepts(n, x)

\* a message reaches the observer of subscription n: its pipe is subscribed to
\* received (dispose() has not run) and its filters accept the message
Delivers(n, x) == subs[n].active /\ SubAccepts(n, x)

\* a subscribe that formats the counter and does not advance it
Relay_subscribeSameId(filter) ==
    /\ loopPc # "none"
    /\ aexitPc = "none"
    /\ LET n == _subid
       IN  /\ _subid' = _subid
           /\ subs' = DictSet(subs, n, [active |-> ~rxErr, fjson |-> filter])
           /\ delivered' = DictSet(delivered, n, <<>>)
           /\ lastReq' = DictSet(lastReq, n, NoneV)
           /\ ready' = ready \o <<[kind |-> "send_req", sub |-> n]>>
                             \o (IF rxErr THEN <<[kind |-> "send_close", sub |-> n]>>
                                 ELSE <<>>)
    /\ UNCHANGED <<extVars, poolVars, loopPc, aexitPc, wsOpen, conn, wire, steps,
                   rxErr, rxOut, relayReq>>

\* Relay.subscribe, the function f run when the observable is subscribed
Relay_subscribe(filter) ==
    /\ loopPc # "none"
    /\ aexitPc = "none"
    /\ LET n == _subid
       IN  /\ _subid' = _subid + 1
           /\ subs' = DictSet(subs, n, [active |-> ~rxErr, fjson |-> filter])
           /\ delivered' = DictSet(delivered, n, <<>>)
           /\ lastReq' = DictSet(lastReq, n, NoneV)
           /\ ready' = ready \o <<[kind |-> "send_req", sub |-> n]>>
                             \o (IF rxErr THEN <<[kind |-> "send_close", sub |-> n]>>
                                 ELSE <<>>)
    /\ UNCHANGED <<extVars, poolVars, loopPc, aexitPc, wsOpen, conn, wire, steps,
                   rxErr, rxOut, relayReq>>

\* Relay.subscribe.dispose, with the unsubscription of the two inner streams
Relay_dispose(n) ==
    /\ n \in ActiveSubs
    /\ aexitPc = "none"
    /\ subs' = [subs EXCEPT ![n].active = FALSE]
    /\ ready' = Append(ready, [kind |-> "send_close", sub |-> n])
    /\ UNCHANGED <<extVars, poolVars, loopPc, aexitPc, wsOpen, conn, wire, steps,
                   _subid, delivered, lastReq, rxErr, rxOut, relayReq>>

\* the task of req(): send_json(["REQ", subid, fjson]); the dict is serialised when
\* the task runs, and send_str raises on a closed socket
RunSendReq ==
    /\ ready # <<>>
    /\ Head(ready).kind = "send_req"
    /\ ready' = Tail(ready)
    /\ LET n == Head(ready).sub
       IN  IF wsOpen
           THEN /\ relayReq' = DictSet(relayReq, Hex(n),
                                       [filter |-> subs[n].fjson, sent |-> {}])
                /\ lastReq' = [lastReq EXCEPT ![n] = subs[n].fjson]
           ELSE UNCHANGED <<relayReq, lastReq>>
    /\ UNCHANGED <<extVars, poolVars, loopPc, aexitPc, wsOpen, conn, wire, steps,
                   _subid, subs, delivered, rxErr, rxOut>>

\* Relay._send_close: nothing on a closed socket, else CLOSE, errors swallowed
RunSendClose ==
    /\ ready # <<>>
    /\ Head(ready).kind = "send_close"
    /\ ready' = Tail(ready)
    /\ relayReq' = IF wsOpen THEN DictDel(relayReq, Hex(Head(ready).sub)) ELSE relayReq
    /\ UNCHANGED <<extVars, poolVars, loopPc, aexitPc, wsOpen, conn, wire, steps,
                   _subid, subs, delivered, lastReq, rxErr, rxOut>>

\* received_unverify.on_next(obj) as deferred by call_soon: _verify_event, share,
\* then each subscription's filters, recv and observer.  Nothing is subscribed to
\* received when no subscription is, or after it terminated with an error.
RunOnNext ==
    /\ ready # <<>>
    /\ Head(ready).kind = "on_next"
    /\ LET x == Head(ready).msg
           r == VerifyMap(x)
       IN  IF rxErr \/ ActiveSubs = {}
           THEN /\ ready' = Tail(ready)
                /\ UNCHANGED <<subs, delivered, rxErr, rxOut>>
           ELSE IF r.raised
           THEN /\ rxErr' = TRUE
                /\ ready' = Tail(ready) \o CloseTasks(0)
                /\ rxOut' = [in |-> x, out |-> <<>>]
                /\ subs' = [n \in DOMAIN subs |-> [subs[n] EXCEPT !.active = FALSE]]
                /\ UNCHANGED delivered
           ELSE IF ~VerifyFilter(r.val)
           THEN /\ rxOut' = [in |-> x, out |-> <<>>]
                /\ ready' = Tail(ready)
                /\ UNCHANGED <<subs, delivered, rxErr>>
           ELSE /\ rxOut' = [in |-> x, out |-> <<r.val>>]
                /\ ready' = Tail(ready)
                /\ subs' = [n \in DOMAIN subs |->
                              IF Delivers(n, r.val)
                              THEN [subs[n] EXCEPT !.fjson = Recv(@, r.val)]
                              ELSE subs[n]]
                /\ delivered' = [n \in DOMAIN delivered |->
                              IF Delivers(n, r.val)
                              THEN Append(delivered[n],
                                          [msg |-> r.val, conn |-> Head(ready).conn,
                                           seq |-> Head(ready).seq])
                              ELSE delivered[n]]
                /\ UNCHANGED rxErr
    /\ UNCHANGED <<extVars, poolVars, loopPc, aexitPc, wsOpen, conn, wire, steps,
                   _subid, lastReq, relayReq>>

\* a _loop whose callback is put at the front of the event loop's queue
LoopReceiveLifo ==
    /\ loopPc = "receive"
    /\ wsOpen
    /\ wire # <<>>
    /\ wire' = Tail(wire)
    /\ IF Head(wire).type # "TEXT"
       THEN UNCHANGED <<loopPc, ready>>
       ELSE IF ~Head(wire).data.ok
       THEN /\ loopPc' = "close"
            /\ UNCHANGED ready
       ELSE IF Head(wire).data.val.t # "list"
       THEN UNCHANGED <<loopPc, ready>>
       ELSE /\ ready' = <<[kind |-> "on_next", msg |-> Head(wire).data.val.v,
                         conn |-> conn, seq |-> steps]>> \o ready
            /\ UNCHANGED loopPc
    /\ UNCHANGED <<extVars, poolVars, aexitPc, wsOpen, conn, steps, _subid, subs, delivered,
                   lastReq, rxErr, rxOut, relayReq>>

\* _loop, lines 75-84: receive() returns a frame of the socket; the callback
\* notes the socket and the number of the frame (steps counts the frames written)
LoopReceive ==
    /\ loopPc = "receive"
    /\ wsOpen
    /\ wire # <<>>
    /\ wire' = Tail(wire)
    /\ IF Head(wire).type # "TEXT"
       THEN UNCHANGED <<loopPc, ready>>
       ELSE IF ~Head(wire).data.ok
       THEN /\ loopPc' = "close"
            /\ UNCHANGED ready
       ELSE IF Head(wire).data.val.t # "list"
       THEN UNCHANGED <<loopPc, ready>>
       ELSE /\ ready' = Append(ready, [kind |-> "on_next", msg |-> Head(wire).data.val.v,
                                       conn |-> conn, seq |-> steps])
            /\ UNCHANGED loopPc
    /\ UNCHANGED <<extVars, poolVars, aexitPc, wsOpen, conn, steps, _subid, subs, delivered,
                   lastReq, rxErr, rxOut, relayReq>>

\* _loop, lines 75-77 and 85-89: receive() returns CLOSED or ERROR, or raises
LoopReceiveEnd ==
    /\ loopPc = "receive"
    /\ steps < MaxSteps
    /\ steps' = steps + 1
    /\ loopPc' = "close"
    /\ relayReq' = <<>>
    /\ UNCHANGED <<extVars, poolVars, aexitPc, wsOpen, conn, wire, ready, _subid, subs,
                   delivered, lastReq, rxErr, rxOut>>

\* _loop, line 89: self._ws.close() returns; on the way out of a cancellation the
\* CancelledError goes on after the finally block
LoopClosed ==
    /\ loopPc \in {"close", "close_cancelled"}
    /\ wsOpen' = FALSE
    /\ wire' = <<>>
    /\ relayReq' = <<>>
    /\ loopPc' = IF loopPc = "close" THEN "sleep" ELSE "cancelled"
    /\ UNCHANGED <<extVars, poolVars, aexitPc, conn, steps, ready, _subid, subs,
                   delivered, lastReq, rxErr, rxOut>>

\* _loop, line 90: sleep(1) is over (the ready callbacks have long run by then)
LoopSlept ==
    /\ loopPc = "sleep"
    /\ ready = <<>>
    /\ loopPc' = "connect"
    /\ UNCHANGED <<extVars, poolVars, aexitPc, wsOpen, conn, wire, steps, ready, _subid,
                   subs, delivered, lastReq, rxErr, rxOut, relayReq>>

\* _loop, lines 91-92: ws_connect returns a socket, reconnected.on_next(None)
LoopConnected ==
    /\ loopPc = "connect"
    /\ conn' = conn + 1
    /\ wsOpen' = TRUE
    /\ ready' = ready \o ReqTasks(0)
    /\ loopPc' = "receive"
    /\ UNCHANGED <<extVars, poolVars, aexitPc, wire, steps, _subid, subs, delivered,
                   lastReq, rxErr, rxOut, relayReq>>

\* _loop, line 91: ws_connect raises; nothing around it catches
LoopConnectRaised ==
    /\ loopPc = "connect"
    /\ loopPc' = "crashed"
    /\ UNCHANGED <<extVars, poolVars, aexitPc, wsOpen, conn, wire, steps, ready, _subid,
                   subs, delivered, lastReq, rxErr, rxOut, relayReq>>

\* a cancellation that ends the task where it is, the finally block not run
Relay_aexitNoFinally ==
    /\ aexitPc = "none"
    /\ loopPc # "none"
    /\ aexitPc' = "awaiting"
    /\ loopPc' = IF loopPc \in {"receive", "close", "sleep", "connect"}
                 THEN "cancelled" ELSE loopPc
    /\ UNCHANGED <<extVars, poolVars, wsOpen, wire, relayReq, conn, steps, ready, _subid,
                   subs, delivered, lastReq, rxErr, rxOut>>

\* Relay.__aexit__, line 109: self._task.cancel() throws CancelledError into the
\* await _loop is suspended at; except Exception does not catch it
Relay_aexit ==
    /\ aexitPc = "none"
    /\ loopPc # "none"
    /\ aexitPc' = "awaiting"
    /\ loopPc' = CASE loopPc = "receive" -> "close_cancelled"
                   [] loopPc \in {"sleep", "connect"} -> "cancelled"
                   [] loopPc = "close" -> "cancelled"
                   [] OTHER -> loopPc
    /\ wsOpen' = IF loopPc = "close" THEN FALSE ELSE wsOpen
    /\ wire' = IF loopPc = "close" THEN <<>> ELSE wire
    /\ relayReq' = IF loopPc = "close" THEN <<>> ELSE relayReq
    /\ UNCHANGED <<extVars, poolVars, conn, steps, ready, _subid, subs, delivered,
                   lastReq, rxErr, rxOut>>

\* Relay.__aexit__, lines 110-114: await self._task ends.  A task that was
\* cancelled or had crashed raises here, the bare except swallows it and the two
\* on_completed are skipped; they run only after a task that returned, and _loop
\* has no return.
Relay_aexit_return ==
    /\ aexitPc = "awaiting"
    /\ loopPc \in {"cancelled", "crashed", "returned"}
    /\ aexitPc' = "returned"
    /\ completed' = IF loopPc = "returned"
                    THEN completed \cup {"received_unverify", "reconnected"}
                    ELSE completed
    /\ UNCHANGED <<clientVars, svcVars, libVars, poolVars, loopPc, wsOpen, conn, wire,
                   steps, ready, _subid, subs, delivered, lastReq, rxErr, rxOut, relayReq>>

\* the relay answers a REQ: an event it holds that matches the REQ's filter
\* (Filter.matches) and that it has not yet sent for this REQ
RelaySendEvent(sid, e) ==
    /\ wsOpen
    /\ loopPc = "receive"
    /\ steps < MaxSteps
    /\ wire = <<>>
    /\ sid \in DOMAIN relayReq
    /\ FilterMatches(relayReq[sid].filter, EventFromDict(e))
    /\ e \notin relayReq[sid].sent
    /\ relayReq' = [relayReq EXCEPT ![sid].sent = @ \cup {e}]
    /\ wire' = Append(wire, ArrayFrame(<<"EVENT", sid, e>>))
    /\ steps' = steps + 1
    /\ UNCHANGED <<extVars, poolVars, loopPc, aexitPc, wsOpen, conn, ready, _subid, subs,
                   delivered, lastReq, rxErr, rxOut>>

\* the frames a relay may write besides the events asked for: frames _loop itself
\* tells apart, and messages for the subscriptions
LoopFrames ==
    {BadJsonFrame, NonArrayFrame, BinaryFrame, ArrayFrame(<<"NOTICE", "hello">>)}

SubFrames ==
    {ArrayFrame(<<"NOTICE", "hello">>), ArrayFrame(<<"EVENT", "0">>)}
    \cup {ArrayFrame(<<"EOSE", sid>>) : sid \in DOMAIN relayReq}

RelaySendOther(f) ==
    /\ wsOpen
    /\ loopPc = "receive"
    /\ steps < MaxSteps
    /\ wire = <<>>
    /\ wire' = Append(wire, f)
    /\ steps' = steps + 1
    /\ UNCHANGED <<extVars, poolVars, loopPc, aexitPc, wsOpen, conn, ready, _subid, subs,
                   delivered, lastReq, rxErr, rxOut, relayReq>>

\* _loop and __aexit__ of a Relay nothing is subscribed to
LoopNext ==
    \/ RunOnNext
    \/ LoopReceive
    \/ LoopReceiveEnd
    \/ LoopClosed
    \/ LoopSlept
    \/ LoopConnected
    \/ LoopConnectRaised
    \/ Relay_aexit
    \/ Relay_aexit_return
    \/ \E f \in LoopFrames : RelaySendOther(f)

LoopSpec == RelayInit /\ [][LoopNext]_vars

\* the subscriptions of a Relay whose reconnects succeed and that is not torn down
RelayNext ==
    \/ \E f \in FilterChoices : _subid < Cardinality(Listeners) /\ Relay_subscribe(f)
    \/ \E n \in DOMAIN subs : Relay_dispose(n)
    \/ RunSendReq
    \/ RunSendClose
    \/ RunOnNext
    \/ LoopReceive
    \/ LoopReceiveEnd
    \/ LoopClosed
    \/ LoopSlept
    \/ LoopConnected
    \/ \E sid \in DOMAIN relayReq, e \in WireEvents : RelaySendEvent(sid, e)
    \/ \E f \in SubFrames : RelaySendOther(f)

RelaySpec == RelayInit /\ [][RelayNext]_vars

\* two subscriptions without bounds on one Relay, whose relay sends signed events
SubsNext ==
    \/ \E f \in {<<>>} : _subid < Cardinality(ListenerPair) /\ Relay_subscribe(f)
    \/ \E n \in DOMAIN subs : Relay_dispose(n)
    \/ RunSendReq
    \/ RunSendClose
    \/ RunOnNext
    \/ LoopReceive
    \/ LoopReceiveEnd
    \/ LoopClosed
    \/ LoopSlept
    \/ LoopConnected
    \/ \E sid \in DOMAIN relayReq, t \in Times : RelaySendEvent(sid, GoodEvt(t))

SubsSpec == RelayInit /\ [][SubsNext]_vars

\* --------------------------------------------------------- the RelayClient

\* ClientWebSocketResponse.send_str as Relay.send_str calls it: it raises on a
\* closed socket, else the message is written (log: whose messages were written)
WsSendStrOnClosed(open, log, s) == [raised |-> FALSE, log |-> log \cup {s}]

WsSendStr(open, log, s) ==
    IF open THEN [raised |-> FALSE, log |-> log \cup {s}]
    ELSE [raised |-> TRUE, log |-> log]

\* _send_str, line 147, once get has returned the Relay of task t
SendStrAfterGet(s, t) ==
    LET r == WsSendStr(ctasks[t].open, ctasks[t].wrote, s)
    IN  /\ ctasks' = [ctasks EXCEPT ![t].wrote = r.log]
        /\ senders' = [senders EXCEPT ![s] =
                          [@ EXCEPT !.pc = "done", !.wait = t,
                                    !.res = IF r.raised THEN "send_failed" ELSE "ok"]]
        /\ UNCHANGED _relays

\* get, lines 129-131: the awaited task raised; the url's entry is popped
\* whichever task it holds by now, and _send_str ends with the exception
GetFailed(s) ==
    /\ _relays' = DictDel(_relays, senders[s].url)
    /\ senders' = [senders EXCEPT ![s] = [@ EXCEPT !.pc = "done",
                                                   !.res = "connect_failed"]]
    /\ UNCHANGED ctasks

\* get, lines 123-128, then suspended at the await of a pending task
GetAwait(s, t) ==
    senders' = [senders EXCEPT ![s] = [@ EXCEPT !.pc = "get", !.wait = t]]

\* the event loop runs a task of _send_str: its first step (get, up to the await
\* of a task that is not done) or its resumption when the awaited task is done
RunSendStr ==
    /\ ready # <<>>
    /\ Head(ready).kind = "send_str"
    /\ ready' = Tail(ready)
    /\ LET s == Head(ready).s
           u == senders[s].url
       IN  IF senders[s].pc = "queued"
           THEN IF u \notin DOMAIN _relays
                THEN /\ ctasks' = Append(ctasks, [url |-> u, st |-> "pending",
                                                  open |-> FALSE, wrote |-> {},
                                                  waiters |-> <<s>>])
                     /\ _relays' = DictSet(_relays, u, Len(ctasks) + 1)
                     /\ GetAwait(s, Len(ctasks) + 1)
                ELSE LET t == _relays[u]
                     IN  CASE ctasks[t].st = "pending" ->
                                  /\ ctasks' = [ctasks EXCEPT ![t].waiters = Append(@, s)]
                                  /\ GetAwait(s, t)
                                  /\ UNCHANGED _relays
                           [] ctasks[t].st = "ok" -> SendStrAfterGet(s, t)
                           [] ctasks[t].st = "failed" -> GetFailed(s)
           ELSE IF ctasks[senders[s].wait].st = "ok"
                THEN SendStrAfterGet(s, senders[s].wait)
                ELSE GetFailed(s)
    /\ UNCHANGED <<poolVars, svcVars, libVars, subjVars, loopPc, aexitPc, wsOpen, conn, wire, steps, _subid,
                   subs, delivered, lastReq, rxErr, rxOut, relayReq, starts, post>>

\* the wake-ups of the tasks awaiting a task that has just become done
Wakeups(w) == [i \in 1..Len(w) |-> [kind |-> "send_str", s |-> w[i]]]

\* _connect, lines 140-143: Relay.__aenter__ returns, or ws_connect raised
ConnectFinish(t, ok) ==
    /\ t \in DOMAIN ctasks
    /\ ctasks[t].st = "pending"
    /\ ctasks' = [ctasks EXCEPT ![t] = [@ EXCEPT !.st = IF ok THEN "ok" ELSE "failed",
                                                 !.open = ok, !.waiters = <<>>]]
    /\ ready' = ready \o Wakeups(ctasks[t].waiters)
    /\ UNCHANGED <<poolVars, svcVars, libVars, subjVars, loopPc, aexitPc, wsOpen, conn, wire, steps, _subid,
                   subs, delivered, lastReq, rxErr, rxOut, relayReq,
                   _relays, senders, starts, post>>

\* Relay._loop of the Relay of task t: the socket is lost and closed
RelayDrop(t) ==
    /\ t \in DOMAIN ctasks
    /\ ctasks[t].st = "ok"
    /\ ctasks[t].open
    /\ steps < MaxSteps
    /\ steps' = steps + 1
    /\ ctasks' = [ctasks EXCEPT ![t].open = FALSE]
    /\ UNCHANGED <<poolVars, svcVars, libVars, subjVars, loopPc, aexitPc, wsOpen, conn, wire, ready, _subid,
                   subs, delivered, lastReq, rxErr, rxOut, relayReq,
                   _relays, senders, starts, post>>

\* Relay._loop of the Relay of task t: ws_connect returned a new socket
RelayReconnect(t) ==
    /\ t \in DOMAIN ctasks
    /\ ctasks[t].st = "ok"
    /\ ~ctasks[t].open
    /\ ctasks' = [ctasks EXCEPT ![t].open = TRUE]
    /\ UNCHANGED <<poolVars, svcVars, libVars, subjVars, relayVars, _relays, senders, starts, post>>

\* the tasks of _send_str of the senders in T, in the order of the urls
SendTasks(T) ==
    LET InT(s) == s \in T
        q == SelectSeq([i \in 1..NSenders |-> i], InT)
    IN  [i \in 1..Len(q) |-> [kind |-> "send_str", s |-> q[i]]]

\* the exceptions among the results gather collected, in the order of the urls
\* (each stands as the url whose _send_str raised it)
Failures(T) ==
    LET Failed(s) == s \in T /\ senders[s].res # "ok"
        q == SelectSeq([i \in 1..NSenders |-> i], Failed)
    IN  [i \in 1..Len(q) |-> senders[q[i]].url]

\* a gather without return_exceptions: the first exception is raised
GatherRaises(T) ==
    [pc |-> IF Failures(T) = <<>> THEN "returned" ELSE "raised",
     targets |-> T, res |-> <<>>]

\* post_event, line 138: gather(*tasks, return_exceptions=True), filtered
Gather(T) == [pc |-> "returned", targets |-> T, res |-> Failures(T)]

\* post_event, lines 134-137, for the urls of the senders in T (a set of urls:
\* no two of them the same); it suspends at the gather
RelayClient_post_event(T) ==
    /\ post.pc = "idle"
    /\ T # {}
    /\ \A s1, s2 \in T : s1 # s2 => senders[s1].url # senders[s2].url
    /\ \A s \in T : senders[s].pc = "idle"
    /\ senders' = [s \in Senders |->
                      IF s \in T THEN [senders[s] EXCEPT !.pc = "queued"] ELSE senders[s]]
    /\ ready' = ready \o SendTasks(T)
    /\ starts' = starts + Cardinality(T)
    /\ post' = [pc |-> "gather", targets |-> T, res |-> <<>>]
    /\ UNCHANGED <<poolVars, svcVars, libVars, subjVars, loopPc, aexitPc, wsOpen, conn, wire, steps, _subid,
                   subs, delivered, lastReq, rxErr, rxOut, relayReq, _relays, ctasks>>

\* post_event, line 138: every task is done and the gather returns
PostEventReturn ==
    /\ post.pc = "gather"
    /\ \A s \in post.targets : senders[s].pc = "done"
    /\ post' = Gather(post.targets)
    /\ UNCHANGED <<poolVars, svcVars, libVars, subjVars, relayVars, _relays, ctasks, senders, starts>>

\* post_event called for the one url of sender s, by a caller of its own (a text
\* entity), again once its earlier call is over
StartSendStr(s) ==
    /\ senders[s].pc \in {"idle", "done"}
    /\ starts < MaxStarts
    /\ starts' = starts + 1
    /\ senders' = [senders EXCEPT ![s] = [pc |-> "queued", url |-> @.url, wait |-> 0,
                                          res |-> "none"]]
    /\ ready' = Append(ready, [kind |-> "send_str", s |-> s])
    /\ UNCHANGED <<poolVars, svcVars, libVars, subjVars, loopPc, aexitPc, wsOpen, conn, wire, steps, _subid,
                   subs, delivered, lastReq, rxErr, rxOut, relayReq,
                   _relays, ctasks, post>>

\* RelayClient.__init__: no entry, no task; no Relay of the other runs
ClientInit ==
    /\ _ref = EmptyDict
    /\ _val = EmptyDict
    /\ tasks = <<>>
    /\ dtasks = <<>>
    /\ pc = [c \in Callers |-> "idle"]
    /\ ckey = [c \in Callers |-> "wss://a"]
    /\ cwait = [c \in Callers |-> 0]
    /\ RelayIdle
    /\ ClientIdle
    /\ SvcUnused
    /\ LibUnused

\* one call of post_event, relays that connect or not and lose their socket
PostNext ==
    \/ \E T \in SUBSET Senders : RelayClient_post_event(T)
    \/ RunSendStr
    \/ \E t \in DOMAIN ctasks, ok \in BOOLEAN : ConnectFinish(t, ok)
    \/ \E t \in DOMAIN ctasks : RelayDrop(t)
    \/ \E t \in DOMAIN ctasks : RelayReconnect(t)
    \/ PostEventReturn

PostSpec == ClientInit /\ [][PostNext]_vars

\* concurrent callers of get, each through a post_event of its own
GetNext ==
    \/ \E s \in Senders : StartSendStr(s)
    \/ RunSendStr
    \/ \E t \in DOMAIN ctasks, ok \in BOOLEAN : ConnectFinish(t, ok)

GetSpec == ClientInit /\ [][GetNext]_vars


\* ------------------------------------------------- the post_event service

\* the orders a list built from set(urls) can have
Orders(S) ==
    {q \in [1..Cardinality(S) -> S] : \A i, j \in DOMAIN q : q[i] = q[j] => i = j}

\* all_urls of _service_post_event
AllUrls(evs) == UNION {evs[e] : e \in DOMAIN evs}

\* A call of the service with one to MaxEvents events, each with its write relays,
\* on a pool nobody else uses; any of the relays may be one that cannot be connected.
ServiceInit ==
    /\ _ref = EmptyDict
    /\ _val = EmptyDict
    /\ tasks = <<>>
    /\ dtasks = <<>>
    /\ pc = [c \in Callers |-> "idle"]
    /\ ckey = [c \in Callers |-> "wss://a"]
    /\ cwait = [c \in Callers |-> 0]
    /\ RelayIdle
    /\ ClientUnused
    /\ events \in UNION {[1..n -> SUBSET Keys] : n \in 1..MaxEvents}
    /\ AllUrls(events) # {}
    /\ order \in Orders(AllUrls(events))
    /\ down \in SUBSET Keys
    /\ dropped = {}
    /\ svcPc = "idle"
    /\ svcIdx = 0
    /\ acquired = <<>>
    /\ sendq = <<>>
    /\ sent = {}
    /\ sendErr = FALSE
    /\ svcRes = "none"
    /\ LibUnused

\* RelaysConnector.__aenter__, line 77: fi.__aenter__ of the i-th item up to its
\* await.  A creation task that is not done suspends the call ("entering"); the
\* await of a task another user of the pool has left done does not suspend, and
\* the call goes on at once ("running").
ConnectorEnter(i) ==
    LET r == EnterRegister(order[i])
    IN  /\ _ref' = r.ref
        /\ _val' = r.val
        /\ tasks' = r.tasks
        /\ svcIdx' = i
        /\ svcPc' = IF r.tasks[r.val[order[i]]].st \in {"ok", "failed"}
                    THEN "running" ELSE "entering"

\* RelaysConnection.publish of event e, line 96: one send_str per relay of the
\* connection whose url is among the event's urls (every relay if it has none)
PublishSends(e, relays) ==
    LET f == SelectSeq(relays, LAMBDA u : events[e] = {} \/ u \in events[e])
    IN  [i \in 1..Len(f) |-> <<e, f[i]>>]

\* _service_post_event, line 134: gather over the events' publish calls
RECURSIVE ServiceSends(_, _)
ServiceSends(e, relays) ==
    IF e > Len(events) THEN <<>>
    ELSE PublishSends(e, relays) \o ServiceSends(e + 1, relays)

\* _service_post_event reaches `async with RelaysConnector(...)`
RelaysConnector_aenter ==
    /\ svcPc = "idle"
    /\ ConnectorEnter(1)
    /\ UNCHANGED <<dtasks, pc, ckey, cwait, relayVars, clientVars, libVars, subjVars, events, order, down,
                   dropped, acquired, sendq, sent, sendErr, svcRes>>

\* RelaysConnector.__aenter__ resumed by the creation task it awaits: the next
\* item, or the connection and the gather of the body, or the except branch
RelaysConnector_aenter_resume ==
    /\ svcPc \in {"entering", "running"}
    /\ LET k == order[svcIdx]
           t == _val[k]
       IN  /\ tasks[t].st \in {"ok", "failed"}
           /\ IF tasks[t].st = "ok"
              THEN /\ acquired' = Append(acquired, k)
                   /\ IF svcIdx < Len(order)
                      THEN /\ ConnectorEnter(svcIdx + 1)
                           /\ UNCHANGED sendq
                      ELSE /\ svcPc' = "publishing"
                           /\ sendq' = ServiceSends(1, Append(acquired, k))
                           /\ UNCHANGED <<_ref, _val, tasks, svcIdx>>
                   /\ UNCHANGED svcRes
              ELSE /\ _ref' = EnterFailed(_ref, _val, k).ref
                   /\ _val' = EnterFailed(_ref, _val, k).val
                   /\ svcIdx' = 1
                   /\ svcPc' = IF acquired = <<>> THEN "done" ELSE "rollback"
                   /\ svcRes' = IF acquired = <<>> THEN "raised" ELSE svcRes
                   /\ UNCHANGED <<tasks, acquired, sendq>>
    /\ UNCHANGED <<dtasks, pc, ckey, cwait, relayVars, clientVars, libVars, subjVars, events, order, down,
                   dropped, sent, sendErr>>

\* RelaysConnector.__aenter__, lines 80-82: the items acquired so far are
\* released one after the other, then the exception is raised again
RelaysConnector_rollback ==
    /\ svcPc = "rollback"
    /\ LET r == ExitRelease(acquired[svcIdx])
       IN  /\ _ref' = r.ref
           /\ _val' = r.val
           /\ dtasks' = r.dtasks
    /\ IF svcIdx < Len(acquired)
       THEN /\ svcIdx' = svcIdx + 1
            /\ UNCHANGED <<svcPc, svcRes>>
       ELSE /\ svcPc' = "done"
            /\ svcRes' = "raised"
            /\ UNCHANGED svcIdx
    /\ UNCHANGED <<tasks, pc, ckey, cwait, relayVars, clientVars, libVars, subjVars, events, order, down,
                   dropped, acquired, sendq, sent, sendErr>>

\* one send_str of the gather runs: x.ws.ws.send_str(data)
RelaysConnection_send ==
    /\ svcPc = "publishing"
    /\ sendq # <<>>
    /\ LET r == WsSendStr(Head(sendq)[2] \notin dropped, sent, Head(sendq))
       IN  /\ sent' = r.log
           /\ sendErr' = (sendErr \/ r.raised)
    /\ sendq' = Tail(sendq)
    /\ UNCHANGED <<poolVars, relayVars, clientVars, libVars, subjVars, events, order, down, dropped, svcPc,
                   svcIdx, acquired, svcRes>>

\* every send_str has run: gather returns or raises and the `async with` is left
RelaysConnection_gathered ==
    /\ svcPc = "publishing"
    /\ sendq = <<>>
    /\ svcPc' = "exiting"
    /\ svcIdx' = 1
    /\ UNCHANGED <<poolVars, relayVars, clientVars, libVars, subjVars, events, order, down, dropped,
                   acquired, sendq, sent, sendErr, svcRes>>

\* RelaysConnector.__aexit__, lines 87-88: every item is released
RelaysConnector_aexit ==
    /\ svcPc = "exiting"
    /\ LET r == ExitRelease(order[svcIdx])
       IN  /\ _ref' = r.ref
           /\ _val' = r.val
           /\ dtasks' = r.dtasks
    /\ IF svcIdx < Len(order)
       THEN /\ svcIdx' = svcIdx + 1
            /\ UNCHANGED <<svcPc, svcRes>>
       ELSE /\ svcPc' = "done"
            /\ svcRes' = IF sendErr THEN "raised" ELSE "ok"
            /\ UNCHANGED svcIdx
    /\ UNCHANGED <<tasks, pc, ckey, cwait, relayVars, clientVars, libVars, subjVars, events, order, down,
                   dropped, acquired, sendq, sent, sendErr>>

\* _create of a relay of the service: client.ws_connect(url) raises for the urls
\* that are down and for no other
ServiceCreateStart(t) ==
    /\ SFI_create_start(t)
    /\ tasks[t].key \notin down => tasks'[t].st = "entering"

ServiceCreateFinish(t) ==
    /\ SFI_create_finish(t)
    /\ tasks'[t].st = "ok" <=> tasks[t].key \notin down

\* the socket of a connected relay is closed (by the peer, by the network)
\* while the service call is under way
ServiceSocketDrop(u) ==
    /\ svcPc \in {"entering", "publishing"}
    /\ u \notin dropped
    /\ \E t \in DOMAIN tasks : tasks[t].key = u /\ tasks[t].st = "ok"
    /\ dropped' = dropped \cup {u}
    /\ UNCHANGED <<poolVars, relayVars, clientVars, libVars, subjVars, events, order, down, svcPc, svcIdx,
                   acquired, sendq, sent, sendErr, svcRes>>

ServiceNext ==
    \/ RelaysConnector_aenter
    \/ RelaysConnector_aenter_resume
    \/ RelaysConnector_rollback
    \/ RelaysConnection_send
    \/ RelaysConnection_gathered
    \/ RelaysConnector_aexit
    \/ \E t \in 1..MaxTasks : ServiceCreateStart(t)
    \/ \E t \in 1..MaxTasks : ServiceCreateFinish(t)
    \/ \E i \in 1..(MaxTasks + 1) : SFI_destroy_start(i)
    \/ \E i \in 1..(MaxTasks + 1) : SFI_destroy_finish(i)
    \/ \E u \in Keys : ServiceSocketDrop(u)

ServiceSpec == ServiceInit /\ [][ServiceNext]_vars

\* The service call next to other users of the pool (the Callers).  Between two
\* awaits the service call runs alone: the other users take no step while it is
\* "running", rolling back or leaving.
ScopeInit ==
    /\ _ref = EmptyDict
    /\ _val = EmptyDict
    /\ tasks = <<>>
    /\ dtasks = <<>>
    /\ pc = [c \in Callers |-> "idle"]
    /\ ckey \in [Callers -> Keys]
    /\ cwait = [c \in Callers |-> 0]
    /\ RelayIdle
    /\ ClientUnused
    /\ events \in [1..1 -> {Keys}]
    /\ order \in Orders(AllUrls(events))
    /\ down \in SUBSET Keys
    /\ dropped = {}
    /\ svcPc = "idle"
    /\ svcIdx = 0
    /\ acquired = <<>>
    /\ sendq = <<>>
    /\ sent = {}
    /\ sendErr = FALSE
    /\ svcRes = "none"
    /\ LibUnused

ServiceSuspended == svcPc \notin {"running", "rollback", "exiting"}

ScopeNext ==
    \/ RelaysConnector_aenter
    \/ RelaysConnector_aenter_resume
    \/ RelaysConnector_rollback
    \/ RelaysConnection_send
    \/ RelaysConnection_gathered
    \/ RelaysConnector_aexit
    \/ \E t \in 1..(MaxTasks + 2) : ServiceCreateStart(t)
    \/ \E t \in 1..(MaxTasks + 2) : ServiceCreateFinish(t)
    \/ \E i \in 1..(MaxTasks + 3) : SFI_destroy_start(i)
    \/ \E i \in 1..(MaxTasks + 3) : SFI_destroy_finish(i)
    \/ \E u \in Keys : ServiceSocketDrop(u)
    \/ \E c \in Callers, k \in Keys : ServiceSuspended /\ SFI_aenter(c, k)
    \/ \E c \in Callers : ServiceSuspended /\ SFI_aenter_resume(c)
    \/ \E c \in Callers : ServiceSuspended /\ SFI_aexit(c)

ScopeSpec == ScopeInit /\ [][ScopeNext]_vars

\* ------------------------------------- ContactRegistory, MetadataRegistory

\* public keys as the events carry them (hex text) and as the registries key
\* them (bytes): bytes.fromhex reads both cases, bytes.hex writes lower case
PubHexes == {"aa", "AA", "bb"}

FromHex(h) == IF h \in {"aa", "AA"} THEN <<170>> ELSE <<187>>

ToHex(b) == IF b = <<170>> THEN "aa" ELSE "bb"

PubKeys == {FromHex(h) : h \in PubHexes}

\* created_at as it comes out of the JSON: an int, or a number that is not one
IntTime(t) == [t |-> "int", v |-> t]

FloatTime(t) == [t |-> "float", v |-> t]

IsInt(x) == x.t = "int"

\* json.loads of an event's content
JsonLoads(s) ==
    CASE s = "{\"name\":\"n1\"}" -> [ok |-> TRUE, val |-> [name |-> "n1"]]
      [] s = "{\"name\":\"n2\"}" -> [ok |-> TRUE, val |-> [name |-> "n2"]]
      [] s = "{\"name\": \"n1\"}" -> [ok |-> TRUE, val |-> [name |-> "n1"]]
      [] s = "{\"name\": \"n2\"}" -> [ok |-> TRUE, val |-> [name |-> "n2"]]
      [] s = "{}" -> [ok |-> TRUE, val |-> EmptyDict]
      [] OTHER -> [ok |-> FALSE]

\* json.dumps(d, ensure_ascii=False) of a payload: ", " and ": " as separators
JsonDumps(d) ==
    IF "name" \notin DOMAIN d THEN "{}"
    ELSE IF d.name = "n1" THEN "{\"name\": \"n1\"}" ELSE "{\"name\": \"n2\"}"

Contents == {"{\"name\":\"n1\"}", "{\"name\":\"n2\"}", "gm"}

TagChoices ==
    {<<<<"p", "aa">>>>, <<<<"p", "aa">>, <<"p", "aa">>>>, <<<<"e", "aa">>, <<"p", "bb">>>>}

RegEvent(pk, t, k, tg, c) ==
    [public_key |-> pk, created_at |-> t, kind |-> k, tags |-> tg, content |-> c]

\* the verified events handed to a registry: events of its kind by the authors,
\* an event of another kind, an event whose created_at is not an int
ContactEvents ==
    {RegEvent(pk, IntTime(t), 3, tg, "") : pk \in PubHexes, t \in Times, tg \in TagChoices}
    \cup {RegEvent("aa", IntTime(2), 0, <<>>, "{\"name\":\"n1\"}"),
          RegEvent("aa", FloatTime(2), 3, <<<<"p", "bb">>>>, "")}

MetadataEvents ==
    {RegEvent(pk, IntTime(t), 0, <<>>, c) : pk \in PubHexes, t \in Times, c \in Contents}
    \cup {RegEvent("aa", IntTime(2), 3, <<<<"p", "bb">>>>, ""),
          RegEvent("aa", FloatTime(2), 0, <<>>, "{\"name\":\"n2\"}")}

\* the objects that subscribe to a registry
Observers == {"sensor"}

RegInit ==
    /\ _ref = EmptyDict
    /\ _val = EmptyDict
    /\ tasks = <<>>
    /\ dtasks = <<>>
    /\ pc = [c \in Callers |-> "idle"]
    /\ ckey = [c \in Callers |-> "wss://a"]
    /\ cwait = [c \in Callers |-> 0]
    /\ RelayIdle
    /\ ClientUnused
    /\ SvcUnused
    /\ regKind \in {"contact", "metadata"}
    /\ data = EmptyDict
    /\ updated = <<>>
    /\ applied = <<>>
    /\ observers = EmptyDict
    /\ lastCall = [n |-> 0, event |-> NoneV, raised |-> FALSE]
    /\ calls = {}
    /\ setCalls = <<>>
    /\ EvUnused
    /\ WsIdle

\* lines 36-37 / 27-28: the stored created_at makes the event one to ignore
StaleAllowEqual(stored, new) == stored > new

Stale(stored, new) == stored >= new

\* the guards of update_verified, lines 30-38 / 21-29
RegIgnores(kind, e) ==
    \/ e.kind # kind
    \/ ~IsInt(e.created_at)
    \/ /\ FromHex(e.public_key) \in DOMAIN data
       /\ Stale(data[FromHex(e.public_key)].created_at.v, e.created_at.v)

\* updated.on_next(x) of the ContactRegistory: the observers whose filter
\* x.public_key == pubhex lets the event through are handed it
ContactNotify(x) ==
    [o \in DOMAIN observers |->
        IF x.public_key = ToHex(observers[o].pubkey)
        THEN [observers[o] EXCEPT !.got = Append(@, x)]
        ELSE observers[o]]

\* updated.on_next(x) of the MetadataRegistory: filter x[0] == pubkey, map x[1:]
MetadataNotify(x) ==
    [o \in DOMAIN observers |->
        IF x.pubkey = observers[o].pubkey
        THEN [observers[o] EXCEPT !.got = Append(@, [created_at |-> x.created_at,
                                                      data |-> x.data])]
        ELSE observers[o]]

\* ContactRegistory.update_verified(e)
Contact_update_verified(e) ==
    /\ regKind = "contact"
    /\ lastCall.n < MaxUpdates
    /\ calls' = calls \cup {e}
    /\ lastCall' = [n |-> lastCall.n + 1,
                    event |-> e, raised |-> FALSE]
    /\ IF RegIgnores(3, e)
       THEN UNCHANGED <<data, updated, applied, observers>>
       ELSE /\ data' = DictSet(data, FromHex(e.public_key), e)
            /\ updated' = Append(updated, e)
            /\ applied' = Append(applied, [author |-> FromHex(e.public_key),
                                           value |-> e])
            /\ observers' = ContactNotify(e)
    /\ UNCHANGED <<poolVars, relayVars, clientVars, svcVars, subjVars, evVars, wsVars, regKind, setCalls>>

\* MetadataRegistory.update_verified(e): json.loads of the content may raise,
\* and then nothing is stored and nothing is emitted
Metadata_update_verified(e) ==
    /\ regKind = "metadata"
    /\ lastCall.n < MaxUpdates
    /\ calls' = calls \cup {e}
    /\ LET n == lastCall.n + 1
           pubkey == FromHex(e.public_key)
           j == JsonLoads(e.content)
           v == [created_at |-> e.created_at, data |-> j.val]
       IN  IF RegIgnores(0, e)
           THEN /\ lastCall' = [n |-> n, event |-> e, raised |-> FALSE]
                /\ UNCHANGED <<data, updated, applied, observers>>
           ELSE IF ~j.ok
           THEN /\ lastCall' = [n |-> n, event |-> e, raised |-> TRUE]
                /\ UNCHANGED <<data, updated, applied, observers>>
           ELSE /\ lastCall' = [n |-> n, event |-> e, raised |-> FALSE]
                /\ data' = DictSet(data, pubkey, v)
                /\ updated' = Append(updated, [pubkey |-> pubkey] @@ v)
                /\ applied' = Append(applied, [author |-> pubkey, value |-> v])
                /\ observers' = MetadataNotify([pubkey |-> pubkey] @@ v)
    /\ UNCHANGED <<poolVars, relayVars, clientVars, svcVars, subjVars, evVars, wsVars, regKind, setCalls>>

\* subscribe(pubkey).subscribe(obs), lines 42-51 / 34-42: the stored value, if
\* there is one, is handed to the observer, which then listens to updated
Replay(pubkey) == IF pubkey \in DOMAIN data THEN <<data[pubkey]>> ELSE <<>>

Registory_subscribe(o, pubkey) ==
    /\ o \notin DOMAIN observers
    /\ observers' = DictSet(observers, o, [pubkey |-> pubkey, at |-> Len(applied),
                                           got |-> Replay(pubkey)])
    /\ UNCHANGED <<poolVars, relayVars, clientVars, svcVars, subjVars, evVars, wsVars, regKind, data, updated,
                   applied, lastCall, calls, setCalls>>

\* the argument of get_followers: hex text, or bytes (lines 20-21)
StrArg(s) == [t |-> "str", v |-> s]

BytesArg(b) == [t |-> "bytes", v |-> b]

ArgHex(arg) == IF arg.t = "bytes" THEN ToHex(arg.v) ELSE arg.v

\* lines 24-26: how many times the inner loop appends the author of an event
MatchesAnyTag(event, pubhex) ==
    Cardinality({i \in DOMAIN event.tags : event.tags[i][2] = pubhex})

Matches(event, pubhex) ==
    Cardinality({i \in DOMAIN event.tags :
                    event.tags[i][1] = "p" /\ event.tags[i][2] = pubhex})

\* ContactRegistory.get_followers: the list it returns, as the number of times
\* each public_key is in it
Contact_get_followers(arg) ==
    LET hits == {k \in DOMAIN data : Matches(data[k], ArgHex(arg)) > 0}
    IN  [a \in {data[k].public_key : k \in hits} |->
            Matches(data[CHOOSE k \in hits : data[k].public_key = a], ArgHex(arg))]

RegNext ==
    \/ \E e \in ContactEvents : Contact_update_verified(e)
    \/ \E e \in MetadataEvents : Metadata_update_verified(e)
    \/ \E o \in Observers, pubkey \in PubKeys : Registory_subscribe(o, pubkey)

RegSpec == RegInit /\ [][RegNext]_vars

\* ---------------------------------------------------------- NostrTextEntity

TextInit == RegInit /\ regKind = "metadata"

\* async_set_value(value) of the NameTextEntity of author "aa" (text.py 55-73),
\* called at time t: without a private key or without stored metadata it
\* raises; else get() hands out the dict the registry stores, lines 61-64
\* change that dict in place (del raises KeyError for an absent name), and the
\* signed event of the changed dict is handed to post_event, which may raise
NostrTextEntity_async_set_value(hasKey, value, t, ok) ==
    /\ regKind = "metadata"
    /\ Len(setCalls) < MaxSets
    /\ LET pub == FromHex("aa")
           old == data[pub].data
           new == IF value # "" THEN DictSet(old, "name", value) ELSE DictDel(old, "name")
           ev == RegEvent(ToHex(pub), IntTime(t), 0, <<>>, JsonDumps(new))
           call(r, e) == Append(setCalls, [value |-> value, result |-> r, event |-> e])
       IN  IF ~hasKey
           THEN setCalls' = call("Private key required", NoneV) /\ UNCHANGED data
           ELSE IF pub \notin DOMAIN data
           THEN setCalls' = call("Full metadata not exist", NoneV) /\ UNCHANGED data
           ELSE IF value = "" /\ "name" \notin DOMAIN old
           THEN setCalls' = call("KeyError", NoneV) /\ UNCHANGED data
           ELSE /\ data' = [data EXCEPT ![pub].data = new]
                /\ setCalls' = call(IF ok THEN "posted" ELSE "post_event raised", ev)
    /\ UNCHANGED <<poolVars, relayVars, clientVars, svcVars, subjVars, evVars, wsVars, regKind,
                   updated, applied, observers, lastCall, calls>>

\* the registry is fed the events of the entity's author that the relays hold,
\* those the entity posted among them, while the entity's value is set
TextNext ==
    \/ \E e \in {x \in MetadataEvents : x.public_key = "aa"} : Metadata_update_verified(e)
    \/ \E i \in DOMAIN setCalls :
            setCalls[i].result = "posted" /\ Metadata_update_verified(setCalls[i].event)
    \/ \E hasKey \in BOOLEAN, value \in {"n2", ""}, t \in Times \cup {3}, ok \in BOOLEAN :
            NostrTextEntity_async_set_value(hasKey, value, t, ok)

TextSpec == TextInit /\ [][TextNext]_vars

\* ------------------------------------------------------------------ Event

RefChoices == {"aa", "bb"}

EvContents == {"hi", "evil"}

EvInit ==
    /\ _ref = EmptyDict
    /\ _val = EmptyDict
    /\ tasks = <<>>
    /\ dtasks = <<>>
    /\ pc = [c \in Callers |-> "idle"]
    /\ ckey = [c \in Callers |-> "wss://a"]
    /\ cwait = [c \in Callers |-> 0]
    /\ RelayIdle
    /\ ClientUnused
    /\ SvcUnused
    /\ RegUnused
    /\ theEvent \in [content : EvContents, public_key : {"aa"}, created_at : Times,
                     kind : {1}, tags : {<<>>}, signature : {NoneV}]
    /\ idRead = <<>>
    /\ verified = "none"
    /\ WsIdle

\* an id kept from the time the event had no tags
Event_idWithoutTags(ev) == ComputeId(ev.public_key, ev.created_at, ev.kind, <<>>, ev.content)

\* Event.id / Event.id_bytes, lines 81-89: computed from the fields at each read
Event_id(ev) == ComputeId(ev.public_key, ev.created_at, ev.kind, ev.tags, ev.content)

\* a read of theEvent.id
Event_read_id ==
    /\ idRead' = Event_id(theEvent)
    /\ UNCHANGED <<poolVars, relayVars, clientVars, svcVars, subjVars, regVars, wsVars, theEvent, verified>>

\* Event.add_pubkey_ref, lines 96-98
Event_add_pubkey_ref(pubkey) ==
    /\ Len(theEvent.tags) < MaxTags
    /\ theEvent' = [theEvent EXCEPT !.tags = Append(@, <<"p", pubkey>>)]
    /\ UNCHANGED <<poolVars, relayVars, clientVars, svcVars, subjVars, regVars, wsVars, idRead, verified>>

\* Event.add_event_ref, lines 100-102
Event_add_event_ref(event_id) ==
    /\ Len(theEvent.tags) < MaxTags
    /\ theEvent' = [theEvent EXCEPT !.tags = Append(@, <<"e", event_id>>)]
    /\ UNCHANGED <<poolVars, relayVars, clientVars, svcVars, subjVars, regVars, wsVars, idRead, verified>>

\* an assignment to a field of the dataclass: event.content = c
Event_set_content(c) ==
    /\ c # theEvent.content
    /\ theEvent' = [theEvent EXCEPT !.content = c]
    /\ UNCHANGED <<poolVars, relayVars, clientVars, svcVars, subjVars, regVars, wsVars, idRead, verified>>

\* Event.sign, lines 104-111, with the private key of public key pk
Event_sign(pk) ==
    /\ theEvent' = [theEvent EXCEPT !.signature = Sign(Event_id(theEvent), pk)]
    /\ UNCHANGED <<poolVars, relayVars, clientVars, svcVars, subjVars, regVars, wsVars, idRead, verified>>

\* Event.verify, lines 113-117: the Schnorr check of the signature against
\* self.id as it is now
Event_verify ==
    /\ verified' = IF theEvent.signature = NoneV THEN "false"
                   ELSE IF /\ theEvent.signature.id = Event_id(theEvent)
                           /\ theEvent.signature.key = theEvent.public_key
                        THEN "true" ELSE "false"
    /\ UNCHANGED <<poolVars, relayVars, clientVars, svcVars, subjVars, regVars, wsVars, theEvent, idRead>>

EvNext ==
    \/ Event_read_id
    \/ \E p \in RefChoices : Event_add_pubkey_ref(p)
    \/ \E i \in RefChoices : Event_add_event_ref(i)
    \/ \E c \in EvContents : Event_set_content(c)
    \/ \E pk \in RefChoices : Event_sign(pk)
    \/ Event_verify

EvSpec == EvInit /\ [][EvNext]_vars

\* ------------------------------------- the integration's Relay (rxws pipeline)

\* a member of the enum WSMsgType
WSMsgType(name) == [enum |-> name]

\* a WSMessage: a tuple of its type and its data
WSMessage(type, payload) == [type |-> WSMsgType(type), data |-> payload]

\* a text: its characters (the body elided) and what json.loads makes of it
Text(chars, json) == [chars |-> chars, json |-> json]

ArrayText(x) == Text(<<"[", "..", "]">>, [ok |-> TRUE, val |-> x])

ArrayTextNl(x) == Text(<<"[", "..", "]", "\n">>, [ok |-> TRUE, val |-> x])

WsMessages ==
    {WSMessage("TEXT", ArrayText(<<"EVENT", "0", GoodEvt(t)>>)) : t \in Times}
    \cup {WSMessage("TEXT", ArrayTextNl(<<"EVENT", "0", GoodEvt(1)>>)),
          WSMessage("TEXT", ArrayText(<<"EVENT", "0", ForgedEvt(1)>>)),
          WSMessage("TEXT", ArrayText(<<"NOTICE", "hello">>)),
          WSMessage("TEXT", Text(<<"{", "..", "}">>, [ok |-> TRUE, val |-> <<>>])),
          WSMessage("TEXT", Text(<<"[", "..", "]">>, [ok |-> FALSE])),
          WSMessage("TEXT", Text(<<>>, [ok |-> FALSE])),
          WSMessage("BINARY", Text(<<"[", "..", "]">>, [ok |-> TRUE, val |-> <<"NOTICE", "hello">>])),
          WSMessage("PING", Text(<<>>, [ok |-> FALSE]))}

WsInit ==
    /\ _ref = EmptyDict
    /\ _val = EmptyDict
    /\ tasks = <<>>
    /\ dtasks = <<>>
    /\ pc = [c \in Callers |-> "idle"]
    /\ ckey = [c \in Callers |-> "wss://a"]
    /\ cwait = [c \in Callers |-> 0]
    /\ RelayIdle
    /\ ClientUnused
    /\ SvcUnused
    /\ RegUnused
    /\ EvUnused
    /\ WsIdle

\* filter_text._filter, rxws.py:31-32: the message itself, a tuple, is compared
\* with the enum member, and a tuple is equal to no enum member
FilterText(x) == x = WSMsgType("TEXT")

\* filter_text._map, rxws.py:34-35
TextData(x) == x.data

\* x.strip("\n"), __init__.py:53
RECURSIVE StripLeft(_)
StripLeft(s) == IF s # <<>> /\ Head(s) = "\n" THEN StripLeft(Tail(s)) ELSE s

RECURSIVE StripRight(_)
StripRight(s) ==
    IF s # <<>> /\ s[Len(s)] = "\n" THEN StripRight(SubSeq(s, 1, Len(s) - 1)) ELSE s

Strip(x) == [x EXCEPT !.chars = StripRight(StripLeft(x.chars))]

\* bool(x) and x[0] == "[" and x[-1] == "]", __init__.py:54
Bracketed(x) ==
    /\ x.chars # <<>>
    /\ x.chars[1] = "["
    /\ x.chars[Len(x.chars)] = "]"

\* The pipeline of __init__.py:51-58 applied to one message of the socket: what
\* reaches json.loads, what the subscribers of received are handed, and whether
\* a stage raised (the stream then ends with on_error).  _verify_event of
\* __init__.py:176-197 is the one of relay.py.
Pipeline(x) ==
    IF ~FilterText(x)
    THEN [parsed |-> <<>>, out |-> <<>>, err |-> FALSE]
    ELSE LET s == Strip(TextData(x))
         IN  IF ~Bracketed(s)
             THEN [parsed |-> <<>>, out |-> <<>>, err |-> FALSE]
             ELSE IF ~s.json.ok
             THEN [parsed |-> <<s>>, out |-> <<>>, err |-> TRUE]
             ELSE LET v == VerifyMap(s.json.val)
                  IN  IF v.raised
                      THEN [parsed |-> <<s>>, out |-> <<>>, err |-> TRUE]
                      ELSE IF VerifyFilter(v.val)
                      THEN [parsed |-> <<s>>, out |-> <<v.val>>, err |-> FALSE]
                      ELSE [parsed |-> <<s>>, out |-> <<>>, err |-> FALSE]

\* from_async_iterable.action, rxws.py:52-55: the socket yields a message and it
\* is handed to the pipeline; a pipeline that has ended takes nothing more
Ws_on_next(x) ==
    /\ Len(wsIn) < MaxMsgs
    /\ wsIn' = Append(wsIn, x)
    /\ IF wsErr
       THEN UNCHANGED <<wsParsed, wsOut, wsErr>>
       ELSE /\ wsParsed' = wsParsed \o Pipeline(x).parsed
            /\ wsOut' = wsOut \o Pipeline(x).out
            /\ wsErr' = Pipeline(x).err
    /\ UNCHANGED <<poolVars, relayVars, clientVars, svcVars, subjVars, regVars, evVars,
                   itTask, itDisposed, itEnd, itLog>>

WsNext == \E x \in WsMessages : Ws_on_next(x)

WsSpec == WsInit /\ [][WsNext]_vars

\* ------------------------------------------------------ from_async_iterable

\* what `await anext(iterator)` does when it resumes: it returns a value, or
\* the iterable is exhausted and it raises StopAsyncIteration (a closed
\* websocket), or the iteration raises an error of its own
AnextResults ==
    {[k |-> "value", v |-> x] : x \in WsMessages}
    \cup {[k |-> "exhausted", v |-> "StopAsyncIteration"],
          [k |-> "raised", v |-> "ConnectionResetError"]}

\* subscribe(observer), lines 44-68: create_task(action()), which runs up to
\* its first await
FromAsyncIterable_subscribe ==
    /\ itTask = "none"
    /\ itTask' = "awaiting"
    /\ UNCHANGED <<poolVars, relayVars, clientVars, svcVars, subjVars, regVars, evVars,
                   wsIn, wsParsed, wsOut, wsErr, itDisposed, itEnd, itLog>>

\* action(), lines 50-60, resumed with the result r of anext. A value is handed
\* to on_next, in which the observer may dispose the subscription (redispose),
\* and the loop goes on while not disposed. StopAsyncIteration is no
\* StopIteration, so the handler of line 57 lets it pass and the one of line 59
\* takes it, as it takes every other Exception: on_error
FromAsyncIterable_action(r, redispose) ==
    /\ itTask = "awaiting"
    /\ r.k = "value" => Cardinality({i \in DOMAIN itLog : itLog[i].k = "on_next"}) < MaxMsgs
    /\ IF r.k = "value"
       THEN /\ itLog' = itLog \o <<[k |-> "on_next", v |-> r.v]>>
                        \o (IF redispose THEN <<[k |-> "dispose", v |-> ""]>> ELSE <<>>)
            /\ itDisposed' = redispose
            /\ itTask' = IF redispose THEN "cancelled" ELSE "awaiting"
            /\ UNCHANGED itEnd
       ELSE /\ itLog' = Append(itLog, [k |-> "on_error", v |-> r.v])
            /\ itEnd' = r.k
            /\ itTask' = "returned"
            /\ UNCHANGED itDisposed
    /\ UNCHANGED <<poolVars, relayVars, clientVars, svcVars, subjVars, regVars, evVars,
                   wsIn, wsParsed, wsOut, wsErr>>

\* dispose(), lines 62-65, called once from outside the task: the flag is set
\* and the task is cancelled; CancelledError, thrown into the pending await, is
\* no Exception and ends the task without a notification
FromAsyncIterable_dispose ==
    /\ itTask # "none"
    /\ ~itDisposed
    /\ itDisposed' = TRUE
    /\ itTask' = IF itTask = "awaiting" THEN "cancelled" ELSE itTask
    /\ itLog' = Append(itLog, [k |-> "dispose", v |-> ""])
    /\ UNCHANGED <<poolVars, relayVars, clientVars, svcVars, subjVars, regVars, evVars,
                   wsIn, wsParsed, wsOut, wsErr, itEnd>>

IterNext ==
    \/ FromAsyncIterable_subscribe
    \/ \E r \in AnextResults, redispose \in BOOLEAN : FromAsyncIterable_action(r, redispose)
    \/ FromAsyncIterable_dispose

IterSpec == WsInit /\ [][IterNext]_vars

\* ------------------------------------------------------- claims on the pool

\* the number of times the resource created by task t had its __aexit__ started
TeardownCount(t) ==
    Cardinality({i \in DOMAIN dtasks : dtasks[i].t = t /\ dtasks[i].st \in {"exiting", "done"}})

\* task t produced a resource and the pool no longer holds it
Released(t) ==
    /\ t \in DOMAIN tasks
    /\ tasks[t].st = "ok"
    /\ ~(tasks[t].key \in DOMAIN _val /\ _val[tasks[t].key] = t)

\* caller c releases the last reference of its key in this step
LastRelease(c) ==
    /\ pc[c] = "holding"
    /\ pc'[c] = "idle"
    /\ _ref[ckey[c]] = 1

\* C1: once the creation task of a key has failed and every caller that waited
\* for it has returned, the key is absent from the pool (no entry keeps the
\* failed task), so the next acquire starts a new creation.
C1_FailedCreationClearsEntry ==
    \A k \in DOMAIN _val :
        tasks[_val[k]].st = "failed" =>
            \E c \in Callers : pc[c] = "awaiting" /\ cwait[c] = _val[k]

\* C6: create is never started for a key that is in the pool, and every caller
\* that entered for a pooled key awaits or holds the pool's one task for it.
C6_SingleCreation ==
    /\ [][Len(tasks') > Len(tasks) => tasks'[Len(tasks')].key \notin DOMAIN _ref]_vars
    /\ [](\A k \in DOMAIN _ref :
             /\ k \in DOMAIN _val
             /\ \A c \in Callers :
                    (pc[c] # "idle" /\ ckey[c] = k) => cwait[c] = _val[k])

C6_Witness ==
    \E c1, c2 \in Callers :
        /\ c1 # c2
        /\ pc[c1] = "holding" /\ pc[c2] = "holding"
        /\ ckey[c1] = ckey[c2] /\ cwait[c1] = cwait[c2]
        /\ _ref[ckey[c1]] = 2

\* C7: a resource whose teardown has started was created successfully, is held
\* or awaited by no caller, and has no second teardown.
C7_TeardownSafety ==
    \A i \in DOMAIN dtasks :
        dtasks[i].st \in {"exiting", "done"} =>
            /\ tasks[dtasks[i].t].st = "ok"
            /\ \A c \in Callers : ~(pc[c] # "idle" /\ cwait[c] = dtasks[i].t)
            /\ TeardownCount(dtasks[i].t) = 1

C7_Witness ==
    \E i \in DOMAIN dtasks :
        /\ dtasks[i].st = "exiting"
        /\ \E c1, c2 \in Callers : c1 # c2 /\ ckey[c1] = ckey[c2]
                                   /\ ckey[c1] = tasks[dtasks[i].t].key

\* C8: the release that brings a key's count to zero removes the key from _ref
\* and _val in that step, and no caller ever awaits or holds a resource that
\* was handed to _destroy.
C8_ReleaseRemovesEntry ==
    /\ [][\A c \in Callers :
             LastRelease(c) => (ckey[c] \notin DOMAIN _ref' /\ ckey[c] \notin DOMAIN _val')]_vars
    /\ [](\A c \in Callers : pc[c] # "idle" =>
             \A i \in DOMAIN dtasks : dtasks[i].t # cwait[c])

C8_Witness ==
    \E i \in DOMAIN dtasks, c \in Callers :
        /\ dtasks[i].st \in {"scheduled", "exiting"}
        /\ pc[c] = "holding"
        /\ ckey[c] = tasks[dtasks[i].t].key
        /\ cwait[c] # dtasks[i].t

\* C9: the last release returns with the teardown only scheduled, every released
\* resource eventually has its teardown started, and never more than once.
C9_TeardownEventuallyOnce ==
    /\ [][\A c \in Callers :
             LastRelease(c) =>
                 dtasks' = Append(dtasks, [t |-> cwait[c], st |-> "scheduled"])]_vars
    /\ \A t \in 1..MaxTasks : Released(t) ~> (TeardownCount(t) = 1)
    /\ [](\A t \in 1..MaxTasks : TeardownCount(t) <= 1)

C9_Witness ==
    \E i \in DOMAIN dtasks, c \in Callers :
        /\ dtasks[i].st = "done"
        /\ ckey[c] = tasks[dtasks[i].t].key
        /\ pc[c] = "idle"

\* ------------------------------------------------------ claims on the Relay

\* C2: _loop ends only by teardown: whenever its task has ended (by an exception
\* that escaped it, or by cancellation), __aexit__ has been called.
C2_LoopEndsOnlyByTeardown ==
    loopPc \in {"crashed", "cancelled"} => aexitPc # "none"

\* C3: a text frame that json.loads rejects, or that parses to a non-array, is
\* dropped alone: the step that reads it leaves _loop at receive() on the same
\* socket.
C3_BadFrameDroppedAlone ==
    [][(/\ loopPc = "receive"
        /\ wire # <<>>
        /\ wire' = Tail(wire)
        /\ Head(wire).type = "TEXT"
        /\ ~(Head(wire).data.ok /\ Head(wire).data.val.t = "list"))
       => (loopPc' = "receive" /\ wsOpen')]_vars

\* the created_at of the i-th message a listener received
DeliveredAt(n, i) == delivered[n][i].msg[3].created_at

\* C4: a listener never receives the same event on two connections, that is
\* once before and once after a reconnect.
C4_NoDuplicateAcrossReconnect ==
    \A n \in DOMAIN delivered :
        \A i, j \in DOMAIN delivered[n] :
            (/\ i < j
             /\ delivered[n][i].msg[1] = "EVENT"
             /\ delivered[n][i].msg = delivered[n][j].msg)
            => delivered[n][i].conn = delivered[n][j].conn

\* the task of req() of subscription n writes its REQ in this step
ReqWritten(n) ==
    /\ ready # <<>>
    /\ Head(ready) = [kind |-> "send_req", sub |-> n]
    /\ wsOpen
    /\ ready' = Tail(ready)

\* C5: the since of a subscription's REQ is never below the since of its REQ
\* before, nor below the created_at of an EVENT its listener has received.
C5_SinceRatchet ==
    [][\A n \in DOMAIN subs :
          ReqWritten(n) =>
              /\ lastReq[n] # NoneV =>
                     DictGet(lastReq'[n], "since", 0) >= DictGet(lastReq[n], "since", 0)
              /\ \A i \in DOMAIN delivered[n] :
                     delivered[n][i].msg[1] = "EVENT" =>
                         DictGet(lastReq'[n], "since", 0) >= DeliveredAt(n, i)]_vars

\* a REQ written after a reconnect, after a later event arrived before an earlier
C5_Witness ==
    \E n \in DOMAIN subs :
        /\ Len(delivered[n]) >= 2
        /\ delivered[n][1].msg[1] = "EVENT" /\ delivered[n][2].msg[1] = "EVENT"
        /\ DeliveredAt(n, 1) > DeliveredAt(n, 2)
        /\ conn > 0
        /\ Hex(n) \in DOMAIN relayReq
        /\ "since" \in DOMAIN lastReq[n]
        /\ lastReq[n].since = DeliveredAt(n, 1)

\* C10: of a message that reached the subscribed inbound stream, an EVENT whose
\* event does not verify comes out in no form and a non-EVENT comes out as it
\* is; every EVENT a listener received carries an event that verifies.
C10_VerificationGate ==
    /\ rxOut.in # <<>> =>
           /\ rxOut.in[1] # "EVENT" => rxOut.out = <<rxOut.in>>
           /\ (/\ rxOut.in[1] = "EVENT"
               /\ Len(rxOut.in) >= 3
               /\ ~Verify(EventFromDict(rxOut.in[3]))) => rxOut.out = <<>>
    /\ \A n \in DOMAIN delivered :
           \A i \in DOMAIN delivered[n] :
               delivered[n][i].msg[1] = "EVENT" =>
                   /\ delivered[n][i].msg[3] # NoneV
                   /\ Verify(delivered[n][i].msg[3])

\* an unsigned event was dropped after a signed one was delivered
C10_Witness ==
    /\ rxOut.in # <<>>
    /\ rxOut.in[1] = "EVENT"
    /\ Len(rxOut.in) >= 3
    /\ "sig" \notin DOMAIN rxOut.in[3]
    /\ rxOut.out = <<>>
    /\ \E n \in ActiveSubs : Len(delivered[n]) = 1 /\ delivered[n][1].msg[1] = "EVENT"

\* C11: an EVENT message whose event is malformed is dropped alone: the inbound
\* stream never ends with an error for its subscribers.
C11_MalformedEventDroppedAlone ==
    ~rxErr

\* the number of tasks of req() of subscription n in the queue q
CountReq(q, n) ==
    Cardinality({i \in DOMAIN q : q[i] = [kind |-> "send_req", sub |-> n]})

\* C12: the step in which ws_connect returns schedules one REQ for every
\* subscription that is subscribed and none for any other, and a REQ that is
\* written carries the subscription's own id and its filter as ratcheted by then.
C12_ResubscribeOnReconnect ==
    [][/\ (loopPc = "connect" /\ loopPc' = "receive") =>
              \A n \in DOMAIN subs :
                  CountReq(ready', n) - CountReq(ready, n)
                      = IF subs[n].active THEN 1 ELSE 0
       /\ \A n \in DOMAIN subs :
              ReqWritten(n) =>
                  /\ Hex(n) \in DOMAIN relayReq'
                  /\ relayReq'[Hex(n)].filter = subs[n].fjson
                  /\ lastReq'[n] = subs[n].fjson]_vars

\* after a reconnect: a subscription made while the socket was down (no REQ of
\* it was ever written) has its one REQ scheduled, a cancelled one has none
C12_Witness ==
    /\ conn > 0
    /\ loopPc = "receive"
    /\ \E n \in ActiveSubs :
           /\ lastReq[n] = NoneV
           /\ ready = <<[kind |-> "send_req", sub |-> n]>>
    /\ \E m \in DOMAIN subs : ~subs[m].active /\ lastReq[m] # NoneV

\* C13: the listener of a subscription that has been disposed receives nothing
\* more, whatever is still queued for dispatch and whether or not its CLOSE has
\* been written.
C13_NothingAfterDispose ==
    [][\A n \in DOMAIN subs : ~subs[n].active => delivered'[n] = delivered[n]]_vars

\* an event for a disposed subscription passed the gate while its CLOSE was
\* still waiting to be written, and did not reach the listener
C13_Witness ==
    \E n \in DOMAIN subs :
        /\ ~subs[n].active
        /\ ~rxErr
        /\ rxOut.in # <<>>
        /\ rxOut.in[1] = "EVENT"
        /\ rxOut.in[2] = Hex(n)
        /\ rxOut.out # <<>>
        /\ \A i \in DOMAIN delivered[n] : delivered[n][i].msg # rxOut.out[1]
        /\ \E i \in DOMAIN ready : ready[i] = [kind |-> "send_close", sub |-> n]

\* C14: a listener only receives messages that carry its own subscription id,
\* and the step that subscribes or cancels one subscription leaves what every
\* other listener has received, and every other subscription's filter, as it is.
C14_SubscriptionIsolation ==
    /\ [](\A n \in DOMAIN delivered :
             \A i \in DOMAIN delivered[n] : delivered[n][i].msg[2] = Hex(n))
    /\ [][\A m \in DOMAIN subs' :
             (\/ m \notin DOMAIN subs
              \/ subs[m].active # subs'[m].active)
             => \A n \in DOMAIN subs \ {m} :
                    delivered'[n] = delivered[n] /\ subs'[n] = subs[n]]_vars

\* both listeners have received an event of their own, and one has cancelled
C14_Witness ==
    /\ DOMAIN subs = {0, 1}
    /\ delivered[0] # <<>>
    /\ delivered[1] # <<>>
    /\ subs[0].active
    /\ ~subs[1].active
    /\ "since" \in DOMAIN subs[0].fjson

\* a call of subscribe in this step has scheduled its first REQ
SubscribeStep ==
    /\ loopPc' = loopPc
    /\ Len(ready') > Len(ready)
    /\ ready'[Len(ready) + 1].kind = "send_req"

\* C15: the id a subscribe assigns was assigned to no subscription before,
\* cancelled or not, and the ids of different subscriptions differ.
C15_UniqueSubscriptionIds ==
    /\ [][SubscribeStep =>
             \A m \in DOMAIN subs : Hex(ready'[Len(ready) + 1].sub) # Hex(m)]_vars
    /\ [](\A n, m \in DOMAIN subs : n # m => Hex(n) # Hex(m))

\* a second subscription was made after the first was cancelled and the
\* connection was re-established
C15_Witness ==
    /\ DOMAIN subs = {0, 1}
    /\ ~subs[0].active
    /\ subs[1].active
    /\ lastReq[0] # NoneV
    /\ conn > 0
    /\ Hex(1) \in DOMAIN relayReq
    /\ Hex(0) \notin DOMAIN relayReq

\* C16: what a listener has received is in the order in which the frames were
\* read from the socket.
C16_PerSubscriptionFifo ==
    \A n \in DOMAIN delivered :
        \A i, j \in DOMAIN delivered[n] :
            i < j => delivered[n][i].seq < delivered[n][j].seq

\* two events of one connection reached the listener, the later-dated one first
C16_Witness ==
    \E n \in DOMAIN delivered :
        /\ Len(delivered[n]) = 2
        /\ delivered[n][1].conn = delivered[n][2].conn
        /\ delivered[n][1].msg[1] = "EVENT" /\ delivered[n][2].msg[1] = "EVENT"
        /\ DeliveredAt(n, 1) > DeliveredAt(n, 2)
        /\ subs[n].fjson = [since |-> DeliveredAt(n, 1)]

\* ------------------------------------------------ claims on the RelayClient

\* the task of _send_str of sender s calls relay.send_str in this step
SendStep(s) ==
    /\ senders[s].pc # "done"
    /\ senders'[s].pc = "done"
    /\ senders'[s].res \in {"ok", "send_failed"}

\* C17: a send_str on a Relay whose socket is not open raises to its caller and
\* writes nothing, and its message is not written later either, whatever
\* reconnects follow.
C17_SendWhileDisconnected ==
    /\ [][\A s \in Senders :
             (SendStep(s) /\ ~ctasks[senders'[s].wait].open) =>
                 (senders'[s].res = "send_failed" /\ ctasks' = ctasks)]_vars
    /\ [](\A s \in Senders :
             senders[s].res = "send_failed" =>
                 \A t \in DOMAIN ctasks : s \notin ctasks[t].wrote)

\* a send failed on a socket that was down, the Relay has a socket again and
\* the message was not written
C17_Witness ==
    \E s \in Senders :
        /\ senders[s].res = "send_failed"
        /\ ctasks[senders[s].wait].open
        /\ s \notin ctasks[senders[s].wait].wrote

\* C18: post_event never raises; when it has returned, its list holds one
\* failure for each url whose connect or send failed and nothing else, and the
\* message was written to a Relay of every other url.
C18_PostEventCollects ==
    /\ post.pc # "raised"
    /\ post.pc = "returned" =>
           /\ Len(post.res) = Cardinality({s \in post.targets : senders[s].res # "ok"})
           /\ \A s \in post.targets :
                  LET u == senders[s].url
                      n == Cardinality({i \in DOMAIN post.res : post.res[i] = u})
                  IN  IF senders[s].res = "ok"
                      THEN /\ n = 0
                           /\ \E t \in DOMAIN ctasks :
                                  ctasks[t].url = u /\ s \in ctasks[t].wrote
                      ELSE n = 1

\* a call for two urls has returned: one failure, the other url was written to
C18_Witness ==
    /\ post.pc = "returned"
    /\ Len(post.res) = 1
    /\ \E s \in post.targets : senders[s].res = "ok"
    /\ \E s \in post.targets : senders[s].res = "connect_failed"

\* C20: no two tasks of _connect for one url are in flight or hold a connected
\* Relay at the same time.
C20_OneConnectionPerUrl ==
    \A t1, t2 \in DOMAIN ctasks :
        (/\ t1 # t2
         /\ ctasks[t1].url = ctasks[t2].url
         /\ ctasks[t1].st \in {"pending", "ok"})
        => ctasks[t2].st = "failed"

\* ------------------------------------------------ claims on the post_event service

\* C19: in the post_event service path, when one of the target relays cannot be
\* connected or its send fails, the event is still sent to every other target
\* relay: once the service call has ended, each event's message was written to
\* every one of its write relays that could be connected and whose socket was
\* not closed.
C19_OtherRelaysStillSent ==
    svcPc = "done" =>
        \A e \in DOMAIN events : \A u \in events[e] :
            (u \notin down /\ u \notin dropped) => <<e, u>> \in sent

\* C21: explicit teardown: once Relay.__aexit__ has returned, the task of _loop
\* has ended and the socket is closed, and from then on _loop takes no step and
\* no socket is connected, whichever await _loop was at when __aexit__ began.
C21_TeardownEndsLoop ==
    /\ [](aexitPc = "returned" => (loopPc \in {"cancelled", "crashed"} /\ ~wsOpen))
    /\ [][aexitPc = "returned" => (loopPc' = loopPc /\ conn' = conn /\ wsOpen' = wsOpen)]_vars

\* teardown that began while _loop was reading from a socket it had reconnected
C21_Witness ==
    aexitPc = "returned" /\ loopPc = "cancelled" /\ conn > 0 /\ ~wsOpen

\* ------------------------------------------------ claims on the registries

\* C22: last write wins: over any sequence of update_verified calls the
\* created_at stored for an author never decreases, and the stored value is
\* replaced only by an event whose created_at is strictly greater than the
\* stored one (an equal timestamp does not replace).
C22_LastWriteWins ==
    [][\A k \in DOMAIN data :
          /\ k \in DOMAIN data'
          /\ data'[k].created_at.v >= data[k].created_at.v
          /\ data'[k] # data[k] => data'[k].created_at.v > data[k].created_at.v]_vars

\* an author's value was replaced by a newer one, and the last call brought
\* another event of that author with the timestamp now stored
C22_Witness ==
    \E i, j \in DOMAIN applied :
        /\ i < j
        /\ applied[i].author = applied[j].author
        /\ lastCall.n > j
        /\ regKind = "contact"
        /\ lastCall.event.kind = 3
        /\ FromHex(lastCall.event.public_key) = applied[j].author
        /\ lastCall.event.created_at = applied[j].value.created_at
        /\ lastCall.event.tags # data[applied[j].author].tags

\* C23: effect and frame of update_verified: a call with an event of the wrong
\* kind, with a created_at that is not an int, or with a created_at not greater
\* than the stored one leaves data unchanged and emits nothing; a call with any
\* other event stores the event's value for its author and emits exactly one
\* notification, which carries that value.
C23_UpdateEffectAndFrame ==
    [][lastCall'.n = lastCall.n + 1 =>
        LET e == lastCall'.event
            k == FromHex(e.public_key)
        IN  IF \/ e.kind # (IF regKind = "contact" THEN 3 ELSE 0)
               \/ e.created_at.t # "int"
               \/ (k \in DOMAIN data /\ e.created_at.v <= data[k].created_at.v)
            THEN data' = data /\ updated' = updated
            ELSE /\ k \in DOMAIN data'
                 /\ data'[k].created_at = e.created_at
                 /\ \A x \in DOMAIN data : x # k => (x \in DOMAIN data' /\ data'[x] = data[x])
                 /\ Len(updated') = Len(updated) + 1
                 /\ SubSeq(updated', 1, Len(updated)) = updated
                 /\ updated'[Len(updated')].created_at = e.created_at]_vars

\* C24: replay then live: an observer subscribed for an author was first handed
\* the author's value stored at that time if there was one (and nothing if there
\* was none), and then every update stored for that author since, in the order
\* stored, and no update of another author.
C24_ReplayThenLive ==
    \A o \in DOMAIN observers :
        LET ob == observers[o]
            before == {i \in 1..ob.at : applied[i].author = ob.pubkey}
            first == IF before = {} THEN <<>>
                     ELSE <<applied[CHOOSE i \in before : \A j \in before : j <= i].value>>
            later == SelectSeq(SubSeq(applied, ob.at + 1, Len(applied)),
                               LAMBDA x : x.author = ob.pubkey)
        IN  ob.got = first \o [i \in 1..Len(later) |-> later[i].value]

\* the events of the registry's kind, with an integer created_at, that
\* update_verified was called with for author k
CallsOf(k) ==
    {e \in calls : /\ e.kind = (IF regKind = "contact" THEN 3 ELSE 0)
                   /\ e.created_at.t = "int"
                   /\ FromHex(e.public_key) = k}

\* the stored value is the one event e gives
StoredFrom(k, e) ==
    /\ k \in DOMAIN data
    /\ IF regKind = "contact"
       THEN data[k] = e
       ELSE /\ data[k].created_at = e.created_at
            /\ JsonLoads(e.content).ok
            /\ data[k].data = JsonLoads(e.content).val

\* C25: order independence and idempotence: whatever the order and the
\* duplicates in which the events of an author were applied, the stored value is
\* that of an event with the greatest created_at among them; and a call with an
\* event that was applied before changes nothing and emits nothing.
C25_OrderIndependentIdempotent ==
    /\ [](\A k \in PubKeys : CallsOf(k) # {} =>
            \E e \in CallsOf(k) :
                /\ \A f \in CallsOf(k) : f.created_at.v <= e.created_at.v
                /\ StoredFrom(k, e))
    /\ [][(lastCall'.n = lastCall.n + 1 /\ lastCall'.event \in calls)
            => (data' = data /\ updated' = updated)]_vars

\* the contact list stored for author k: the last one update_verified stored
Latest(k) ==
    applied[CHOOSE i \in DOMAIN applied :
               /\ applied[i].author = k
               /\ \A j \in DOMAIN applied : applied[j].author = k => j <= i].value

\* the authors whose stored contact list carries the tag ["p", x]
FollowersOf(x) ==
    {Latest(k).public_key :
        k \in {a \in {applied[i].author : i \in DOMAIN applied} :
                 \E n \in DOMAIN Latest(a).tags : Latest(a).tags[n] = <<"p", x>>}}

\* C26: follower lookup: after any sequence of update_verified calls,
\* get_followers(X) returns the authors of exactly those contact lists currently
\* stored (the last one stored per author) that carry a tag ["p", X].
C26_FollowerLookup ==
    regKind = "contact" =>
        \A x \in PubHexes :
            /\ DOMAIN Contact_get_followers(StrArg(x)) = FollowersOf(x)
            /\ DOMAIN Contact_get_followers(BytesArg(FromHex(x))) = FollowersOf(ToHex(FromHex(x)))

\* an author's list referencing X was replaced by one that does not, while
\* another author's list still references X
C26_Witness ==
    /\ regKind = "contact"
    /\ \E i, j \in DOMAIN applied :
          /\ i < j
          /\ applied[i].author = applied[j].author
          /\ <<"p", "aa">> \in {applied[i].value.tags[n] : n \in DOMAIN applied[i].value.tags}
          /\ <<"p", "aa">> \notin {applied[j].value.tags[n] : n \in DOMAIN applied[j].value.tags}
          /\ applied[j].value.public_key \notin DOMAIN Contact_get_followers(StrArg("aa"))
    /\ DOMAIN Contact_get_followers(BytesArg(<<170>>)) # {}

\* -------------------------------------------------------- claims on the Event

\* C27: the id is never stale: a read of Event.id returns the hash of the
\* serialization of the fields as they are at the read; a change of one of the
\* fields changes the id; and verify checks the signature against the id of the
\* fields as they are at the call.
C27_IdNeverStale ==
    [][/\ idRead' # idRead =>
            idRead' = ComputeId(theEvent.public_key, theEvent.created_at, theEvent.kind,
                                theEvent.tags, theEvent.content)
       /\ [theEvent' EXCEPT !.signature = NoneV] # [theEvent EXCEPT !.signature = NoneV]
            => Event_id(theEvent') # Event_id(theEvent)
       /\ verified' # verified =>
            (verified' = "true" <=>
                /\ theEvent.signature # NoneV
                /\ theEvent.signature.key = theEvent.public_key
                /\ theEvent.signature.id =
                       ComputeId(theEvent.public_key, theEvent.created_at, theEvent.kind,
                                 theEvent.tags, theEvent.content))]_vars

\* signed by its author, then add_pubkey_ref: the id read is the new one and
\* verify has failed
C27_Witness ==
    /\ theEvent.signature # NoneV
    /\ theEvent.signature.key = theEvent.public_key
    /\ theEvent.tags = <<<<"p", "bb">>>>
    /\ theEvent.signature.id = ComputeId(theEvent.public_key, theEvent.created_at,
                                         theEvent.kind, <<>>, theEvent.content)
    /\ idRead = ComputeId(theEvent.public_key, theEvent.created_at, theEvent.kind,
                          theEvent.tags, theEvent.content)
    /\ verified = "false"

\* ------------------------------------------- claims on the RelaysConnector

\* the count of a key, 0 for a key that is not in the pool
RefOf(ref, k) == IF k \in DOMAIN ref THEN ref[k] ELSE 0

\* the registrations of key k the service call has in the pool at a position
\* of its code: the item it is entering and those acquired and not yet released
ConnectorHolds(p, idx, acq, k) ==
    CASE p \in {"entering", "running"} ->
             IF k = order[idx] \/ k \in {acq[i] : i \in DOMAIN acq} THEN 1 ELSE 0
      [] p = "publishing" -> IF k \in {acq[i] : i \in DOMAIN acq} THEN 1 ELSE 0
      [] p = "rollback" -> IF k \in {acq[i] : i \in idx..Len(acq)} THEN 1 ELSE 0
      [] p = "exiting" -> IF k \in {order[i] : i \in idx..Len(order)} THEN 1 ELSE 0
      [] OTHER -> 0

\* C28: scoped acquisition: every step of the service call changes the count of
\* each key by exactly the registrations the call gains or gives up in that step
\* (one more when an item is entered, one less when the entering fails, one less
\* for each acquired item rolled back or released on exit), so that when the call
\* has ended, by a failed __aenter__ or after the body, its net effect on every
\* count is zero.
C28_ScopedAcquisition ==
    [][svcVars' # svcVars =>
          \A k \in Keys :
              RefOf(_ref', k) - RefOf(_ref, k)
                = ConnectorHolds(svcPc', svcIdx', acquired', k)
                  - ConnectorHolds(svcPc, svcIdx, acquired, k)]_vars

\* ------------------------------------ claims on the integration's pipeline

\* C29: in the pipeline of the integration's Relay, every message of type TEXT
\* whose text is a JSON array reaches the parse stage and, when it is not an
\* EVENT that fails verification, the subscribers of received; a message of any
\* other type is dropped.
C29_TextArraysReachSubscribers ==
    [][(Len(wsIn') = Len(wsIn) + 1 /\ ~wsErr) =>
          LET x == wsIn'[Len(wsIn')]
          IN  IF x.type.enum = "TEXT"
              THEN (x.data.json.ok /\ x.data.chars[1] = "[") =>
                       /\ Len(wsParsed') = Len(wsParsed) + 1
                       /\ (x.data.json.val[1] = "EVENT"
                              => (Len(wsOut') = Len(wsOut) + 1
                                   <=> Verify(EventFromDict(x.data.json.val[3]))))
                       /\ (x.data.json.val[1] # "EVENT"
                              => Len(wsOut') = Len(wsOut) + 1)
              ELSE wsParsed' = wsParsed /\ wsOut' = wsOut]_vars

\* ------------------------------------------ claims on the Relay's teardown

\* C30: after Relay.__aexit__ has returned, the inbound stream
\* (received_unverify, hence received) and the reconnected signal have been
\* completed.
C30_SubjectsCompletedOnExit ==
    aexitPc = "returned" => completed = {"received_unverify", "reconnected"}

\* ------------------------------------------- claims on the NostrTextEntity

\* C31: the payload the MetadataRegistory stores for an author changes only in
\* a step of update_verified that applies an event of that author whose
\* created_at is strictly greater than the stored one (or the first one), and
\* becomes that event's parsed content; async_set_value, whether its publish
\* succeeds or fails, leaves every stored payload as it is.
C31_PayloadChangesOnlyInUpdate ==
    [][\A k \in PubKeys :
          LET before == IF k \in DOMAIN data THEN <<data[k].data>> ELSE <<>>
              after == IF k \in DOMAIN data' THEN <<data'[k].data>> ELSE <<>>
          IN  after # before =>
                /\ setCalls' = setCalls
                /\ lastCall'.n = lastCall.n + 1
                /\ ~lastCall'.raised
                /\ lastCall'.event.kind = 0
                /\ FromHex(lastCall'.event.public_key) = k
                /\ k \in DOMAIN data => lastCall'.event.created_at.v > data[k].created_at.v
                /\ after = <<JsonLoads(lastCall'.event.content).val>>]_vars

\* --------------------------------------- claims on from_async_iterable

\* C32: when the async iterable is exhausted the observer has been handed
\* on_completed exactly once and no on_error; an on_error is handed only when
\* the iteration raised an error of its own; and after the subscription is
\* disposed the observer is handed nothing.
C32_IterableTermination ==
    /\ itEnd = "exhausted" =>
          /\ Cardinality({i \in DOMAIN itLog : itLog[i].k = "on_completed"}) = 1
          /\ \A i \in DOMAIN itLog : itLog[i].k # "on_error"
    /\ \A i \in DOMAIN itLog : itLog[i].k = "on_error" => itEnd = "raised"
    /\ \A i, j \in DOMAIN itLog : i < j /\ itLog[i].k = "dispose" => itLog[j].k = "dispose"

====
